---- MODULE Spec2Model ----
(***************************************************************************)
(* Credential and session lifecycle of TalksDocs (app/api/auth.py,         *)
(* app/api/users.py, app/db/crud.py): login with lockout, refresh-token    *)
(* rotation with reuse detection, logout and logout-all, registration,     *)
(* single-use verification and password-reset tokens, session revocation,  *)
(* the purge of expired tokens, deactivation, deletion and the purge of    *)
(* deactivated accounts.                                                   *)
(*                                                                         *)
(* The database is the variables users, tokens, nextTok (refresh tokens),  *)
(* vtokens, ptokens and nextSecret (single-use tokens).  Every crud        *)
(* function is an operator from a database record d to a database record;  *)
(* every request handler is a chain of steps, one per database statement   *)
(* (a query or a commit).  Run composes the steps of one handler, so the   *)
(* sequential specifications take a whole handler as one action, and       *)
(* SpecRace interleaves the same steps of two handlers.                    *)
(*                                                                         *)
(* Time is a clock of ticks.  The durations of app/settings.py are scaled  *)
(* down to one or two ticks and never reverse their order;                 *)
(* the code only compares timestamps, so the comparisons and their         *)
(* boundary cases are those of the code.  Timestamps are instants: the     *)
(* naive (utcnow) and timezone-aware values the code mixes are compared as *)
(* the same clock.                                                         *)
(***************************************************************************)
EXTENDS Integers, Sequences, FiniteSets, TLC

VARIABLES users, tokens, nextTok, vtokens, ptokens, nextSecret, now, proc

vars == <<users, tokens, nextTok, vtokens, ptokens, nextSecret, now, proc>>

----------------------------------------------------------------------------
(* Bounds of the model *)

\* refresh-token records ever created (uuid4 ids are the numbers 1..MaxTokens)
MaxTokens == 3
\* last tick of the clock
MaxTime == 3
\* cap of users.failed_login_attempts, an unbounded Integer column
MaxFailed == 6
\* verification and password-reset records ever created
MaxSecrets == 2

(* Program constants, app/settings.py *)

MAX_LOGIN_ATTEMPTS == 5
\* LOCKOUT_DURATION_MINUTES = 30, in ticks
LOCKOUT_DURATION == 1
\* REFRESH_TOKEN_EXPIRE_DAYS = 7, in ticks
REFRESH_TOKEN_EXPIRE == 2
REQUIRE_EMAIL_VERIFICATION == TRUE
\* VERIFICATION_TOKEN_EXPIRE_HOURS = 24, in ticks
VERIFICATION_TOKEN_EXPIRE == 2
\* PASSWORD_RESET_TOKEN_EXPIRE_HOURS = 1, in ticks
PASSWORD_RESET_TOKEN_EXPIRE == 1
\* timedelta(days=30) of cleanup_deactivated_users, in ticks
DEACTIVATED_RETENTION == 2

----------------------------------------------------------------------------
(* Values *)

\* Optional[...]: None, or a one-element tuple holding the value
None == << >>
Some(x) == <<x>>
Val(o) == o[1]

UserIds == {"u1", "u2"}
Procs == {"p1", "p2"}

\* the password each account was registered with, and one that matches none
GoodPassword == "Password123!"
WrongPassword == "wrongpassword"
Passwords == {GoodPassword, WrongPassword}
\* the password a reset sets
NewPassword == "NewPassword456!"

EmailOf(u) == IF u = "u1" THEN "a@x.com" ELSE "b@x.com"
UnknownEmail == "nobody@x.com"
Emails == {EmailOf(u) : u \in UserIds} \cup {UnknownEmail}
\* the address an email change asks for
NewEmail == "c@x.com"

\* the ids (uuid4) of the users that register
NewUserIds == {"u3", "u4"}

\* a refresh-token value that was never issued
UnknownTokens == {0}

\* bcrypt: the hash determines the password it was made from
get_password_hash(password) == <<"bcrypt", password>>
verify_password(plain_password, hashed_password) ==
    get_password_hash(plain_password) = hashed_password

\* models.User, the columns the session lifecycle reads or writes
NewUser(u) ==
    [ email |-> EmailOf(u),
      hashed_password |-> get_password_hash(GoodPassword),
      is_active |-> TRUE,
      deactivated_at |-> None,
      is_verified |-> TRUE,
      failed_login_attempts |-> 0,
      locked_until |-> None,
      last_login_at |-> None ]

\* the database as one record, for the crud operators
DB ==
    [ users |-> users, tokens |-> tokens, nextTok |-> nextTok,
      vtokens |-> vtokens, ptokens |-> ptokens, nextSecret |-> nextSecret ]

----------------------------------------------------------------------------
(* app/db/crud.py *)

get_user_by_email(d, email) ==
    LET hit == {u \in DOMAIN d.users : d.users[u].email = email}
    IN  IF hit = {} THEN None ELSE Some(CHOOSE u \in hit : TRUE)

\* the row create_user inserts; id is the uuid4 the row gets
create_user(d, id, email, password) ==
    [d EXCEPT !.users = @ @@
        (id :> [ email |-> email,
                 hashed_password |-> get_password_hash(password),
                 is_active |-> TRUE,
                 deactivated_at |-> None,
                 is_verified |-> ~REQUIRE_EMAIL_VERIFICATION,
                 failed_login_attempts |-> 0,
                 locked_until |-> None,
                 last_login_at |-> None ])]

\* is_user_locked with the comparison turned round
is_user_locked_reversed(db_user, t) ==
    IF db_user.locked_until = None THEN FALSE
    ELSE t > Val(db_user.locked_until)

is_user_locked(db_user, t) ==
    IF db_user.locked_until = None THEN FALSE
    ELSE t < Val(db_user.locked_until)

\* increment_failed_login locking only past the threshold (> for >=)
increment_failed_login_late(d, u, attempts, t) ==
    LET n == attempts + 1
        row == [d.users[u] EXCEPT !.failed_login_attempts = n]
    IN  [d EXCEPT !.users[u] =
            IF n > MAX_LOGIN_ATTEMPTS
            THEN [row EXCEPT !.locked_until = Some(t + LOCKOUT_DURATION)]
            ELSE row]

\* increment_failed_login locking one failure before the threshold
increment_failed_login_early(d, u, attempts, t) ==
    LET n == attempts + 1
        row == [d.users[u] EXCEPT !.failed_login_attempts = n]
    IN  [d EXCEPT !.users[u] =
            IF n >= MAX_LOGIN_ATTEMPTS - 1
            THEN [row EXCEPT !.locked_until = Some(t + LOCKOUT_DURATION)]
            ELSE row]

\* increment_failed_login locking only on the failure that reaches the
\* threshold (= for >=)
increment_failed_login_exact(d, u, attempts, t) ==
    LET n == attempts + 1
        row == [d.users[u] EXCEPT !.failed_login_attempts = n]
    IN  [d EXCEPT !.users[u] =
            IF n = MAX_LOGIN_ATTEMPTS
            THEN [row EXCEPT !.locked_until = Some(t + LOCKOUT_DURATION)]
            ELSE row]

\* db_user is the ORM object the handler loaded: the counter it adds to is
\* the one it read (attempts), not the one in the row
increment_failed_login(d, u, attempts, t) ==
    LET n == attempts + 1
        row == [d.users[u] EXCEPT !.failed_login_attempts = n]
    IN  [d EXCEPT !.users[u] =
            IF n >= MAX_LOGIN_ATTEMPTS
            THEN [row EXCEPT !.locked_until = Some(t + LOCKOUT_DURATION)]
            ELSE row]

\* reset_failed_login leaving the stale locked_until in place
reset_failed_login_stale(d, u, t) ==
    [d EXCEPT !.users[u] = [@ EXCEPT !.failed_login_attempts = 0,
                                     !.last_login_at = Some(t)]]

reset_failed_login(d, u, t) ==
    [d EXCEPT !.users[u] = [@ EXCEPT !.failed_login_attempts = 0,
                                     !.locked_until = None,
                                     !.last_login_at = Some(t)]]

activate_user(d, u) ==
    [d EXCEPT !.users[u] = [@ EXCEPT !.is_active = TRUE,
                                     !.deactivated_at = None]]

update_user_password(d, user_id, new_password) ==
    [d EXCEPT !.users[user_id].hashed_password = get_password_hash(new_password)]

verify_user_email(d, u) ==
    [d EXCEPT !.users[u].is_verified = TRUE]

update_user_email(d, u, new_email) ==
    [d EXCEPT !.users[u] = [@ EXCEPT !.email = new_email, !.is_verified = TRUE]]

\* deactivate_user leaving deactivated_at as it was
deactivate_user_unstamped(d, user_id, t) ==
    [d EXCEPT !.users[user_id] = [@ EXCEPT !.is_active = FALSE]]

deactivate_user(d, user_id, t) ==
    [d EXCEPT !.users[user_id] = [@ EXCEPT !.is_active = FALSE,
                                           !.deactivated_at = Some(t)]]

\* the rows of table rows that user u does not own
NotOwnedBy(rows, u) ==
    [i \in {j \in DOMAIN rows : rows[j].user_id # u} |-> rows[i]]

\* delete_user without the relationship cascade: only the users row goes
delete_user_keep_tokens(d, u) ==
    [d EXCEPT !.users = [v \in DOMAIN @ \ {u} |-> @[v]]]

\* db.delete(db_user): the relationships of models.User cascade
\* "all, delete-orphan", so the session deletes the user's refresh,
\* verification and password-reset rows in the same commit
delete_user(d, u) ==
    [d EXCEPT !.users = [v \in DOMAIN @ \ {u} |-> @[v]],
              !.tokens = NotOwnedBy(@, u),
              !.vtokens = NotOwnedBy(@, u),
              !.ptokens = NotOwnedBy(@, u)]

\* the query of cleanup_deactivated_users with < for <=
expired_users_strict(d, t) ==
    {u \in DOMAIN d.users :
        /\ d.users[u].is_active = FALSE
        /\ d.users[u].deactivated_at # None
        /\ Val(d.users[u].deactivated_at) < t - DEACTIVATED_RETENTION}

\* the query of cleanup_deactivated_users; a NULL deactivated_at matches no
\* comparison
expired_users(d, t) ==
    {u \in DOMAIN d.users :
        /\ d.users[u].is_active = FALSE
        /\ d.users[u].deactivated_at # None
        /\ Val(d.users[u].deactivated_at) <= t - DEACTIVATED_RETENTION}

\* the new row takes the next unused id; its secret value is as unique as
\* its id, so the value is the id; family_id None is "family_id or uuid4()".
\* revoked_at, created_at, device_info and ip_address are written and never
\* read by the handlers: the row leaves them out
create_refresh_token(d, user_id, expires_at, family_id) ==
    LET id == d.nextTok
        row == [ token |-> id,
                 user_id |-> user_id,
                 is_revoked |-> FALSE,
                 expires_at |-> expires_at,
                 family_id |-> IF family_id = None THEN id ELSE Val(family_id),
                 replaced_by |-> None ]
    IN  [d EXCEPT !.tokens = @ @@ (id :> row), !.nextTok = id + 1]

get_refresh_token(d, token) ==
    LET hit == {i \in DOMAIN d.tokens : d.tokens[i].token = token}
    IN  IF hit = {} THEN None ELSE Some(CHOOSE i \in hit : TRUE)

\* revoke_refresh_token with is_revoked left as it is
revoke_refresh_token_link_only(d, id, replaced_by, t) ==
    [d EXCEPT !.tokens[id] = [@ EXCEPT !.replaced_by = replaced_by]]

revoke_refresh_token(d, id, replaced_by, t) ==
    [d EXCEPT !.tokens[id] = [@ EXCEPT !.is_revoked = TRUE,
                                       !.replaced_by = replaced_by]]

\* revoke_token_family with the filter inverted to is_revoked == True: no
\* row changes
revoke_token_family_inverted(d, family_id, t) ==
    [d EXCEPT !.tokens =
        [i \in DOMAIN @ |->
            IF @[i].family_id = family_id /\ @[i].is_revoked
            THEN [@[i] EXCEPT !.is_revoked = TRUE]
            ELSE @[i]]]

revoke_token_family(d, family_id, t) ==
    [d EXCEPT !.tokens =
        [i \in DOMAIN @ |->
            IF @[i].family_id = family_id /\ ~@[i].is_revoked
            THEN [@[i] EXCEPT !.is_revoked = TRUE]
            ELSE @[i]]]

\* the rows the UPDATE of revoke_all_user_tokens matches
UserLiveTokens(d, user_id) ==
    {i \in DOMAIN d.tokens :
        d.tokens[i].user_id = user_id /\ ~d.tokens[i].is_revoked}

\* revoke_all_user_tokens with is_revoked == False missing from the filter:
\* the UPDATE matches, and counts, every row of the user
revoke_all_user_tokens_unfiltered(d, user_id, t) ==
    [ db |-> [d EXCEPT !.tokens =
                [i \in DOMAIN @ |->
                    IF @[i].user_id = user_id
                    THEN [@[i] EXCEPT !.is_revoked = TRUE]
                    ELSE @[i]]],
      result |-> Cardinality({i \in DOMAIN d.tokens : d.tokens[i].user_id = user_id}) ]

revoke_all_user_tokens(d, user_id, t) ==
    [ db |-> [d EXCEPT !.tokens =
                [i \in DOMAIN @ |->
                    IF i \in UserLiveTokens(d, user_id)
                    THEN [@[i] EXCEPT !.is_revoked = TRUE]
                    ELSE @[i]]],
      result |-> Cardinality(UserLiveTokens(d, user_id)) ]

\* get_user_active_sessions without the filter on user_id
get_user_active_sessions_any_user(d, user_id, t) ==
    {i \in DOMAIN d.tokens :
        ~d.tokens[i].is_revoked /\ d.tokens[i].expires_at > t}

\* the rows of the query, as a set: the order by created_at is not used by
\* revoke_session
get_user_active_sessions(d, user_id, t) ==
    {i \in DOMAIN d.tokens :
        /\ d.tokens[i].user_id = user_id
        /\ ~d.tokens[i].is_revoked
        /\ d.tokens[i].expires_at > t}

\* cleanup_expired_tokens with the filter expires_at <= utcnow()
cleanup_expired_tokens_inclusive(d, t) ==
    LET hit == {i \in DOMAIN d.tokens : d.tokens[i].expires_at <= t}
    IN  [ db |-> [d EXCEPT !.tokens = [i \in DOMAIN @ \ hit |-> @[i]]],
          result |-> Cardinality(hit) ]

\* the DELETE and its row count
cleanup_expired_tokens(d, t) ==
    LET hit == {i \in DOMAIN d.tokens : d.tokens[i].expires_at < t}
    IN  [ db |-> [d EXCEPT !.tokens = [i \in DOMAIN @ \ hit |-> @[i]]],
          result |-> Cardinality(hit) ]

\* Verification Token CRUD.  The secret value of a single-use token is its
\* id, drawn from one counter for both tables (token_urlsafe values do not
\* repeat); used_at and created_at are written and never read

\* the rows the UPDATE of create_verification_token matches
UnusedVerificationTokens(d, user_id, token_type) ==
    {i \in DOMAIN d.vtokens :
        /\ d.vtokens[i].user_id = user_id
        /\ d.vtokens[i].token_type = token_type
        /\ ~d.vtokens[i].is_used}

\* the commit of create_verification_token: it makes visible the UPDATE,
\* which marked the rows it matched when it ran (matched), and the INSERT
create_verification_token(d, user_id, token_type, new_email, matched, t) ==
    LET id == d.nextSecret
        row == [ token |-> id,
                 user_id |-> user_id,
                 token_type |-> token_type,
                 new_email |-> new_email,
                 is_used |-> FALSE,
                 expires_at |-> t + VERIFICATION_TOKEN_EXPIRE ]
    IN  [d EXCEPT !.vtokens =
                     [i \in DOMAIN @ |->
                        IF i \in matched THEN [@[i] EXCEPT !.is_used = TRUE]
                        ELSE @[i]] @@ (id :> row),
                  !.nextSecret = id + 1]

get_verification_token(d, token, t) ==
    LET hit == {i \in DOMAIN d.vtokens :
                   /\ d.vtokens[i].token = token
                   /\ ~d.vtokens[i].is_used
                   /\ d.vtokens[i].expires_at > t}
    IN  IF hit = {} THEN None ELSE Some(CHOOSE i \in hit : TRUE)

use_verification_token(d, id) ==
    [d EXCEPT !.vtokens[id].is_used = TRUE]

\* Password Reset Token CRUD

\* the rows the UPDATE of create_password_reset_token matches
UnusedPasswordResetTokens(d, user_id) ==
    {i \in DOMAIN d.ptokens :
        d.ptokens[i].user_id = user_id /\ ~d.ptokens[i].is_used}

create_password_reset_token(d, user_id, matched, t) ==
    LET id == d.nextSecret
        row == [ token |-> id,
                 user_id |-> user_id,
                 is_used |-> FALSE,
                 expires_at |-> t + PASSWORD_RESET_TOKEN_EXPIRE ]
    IN  [d EXCEPT !.ptokens =
                     [i \in DOMAIN @ |->
                        IF i \in matched THEN [@[i] EXCEPT !.is_used = TRUE]
                        ELSE @[i]] @@ (id :> row),
                  !.nextSecret = id + 1]

\* get_password_reset_token without is_used == False in the filter
get_password_reset_token_any(d, token, t) ==
    LET hit == {i \in DOMAIN d.ptokens :
                   /\ d.ptokens[i].token = token
                   /\ d.ptokens[i].expires_at > t}
    IN  IF hit = {} THEN None ELSE Some(CHOOSE i \in hit : TRUE)

get_password_reset_token(d, token, t) ==
    LET hit == {i \in DOMAIN d.ptokens :
                   /\ d.ptokens[i].token = token
                   /\ ~d.ptokens[i].is_used
                   /\ d.ptokens[i].expires_at > t}
    IN  IF hit = {} THEN None ELSE Some(CHOOSE i \in hit : TRUE)

use_password_reset_token(d, id) ==
    [d EXCEPT !.ptokens[id].is_used = TRUE]

----------------------------------------------------------------------------
(* A request in a handler: its arguments, its position and its response *)

Idle ==
    [ op |-> "none", pc |-> "idle",
      email |-> UnknownEmail, password |-> WrongPassword,   \* login form
      token |-> 0,                                          \* refresh_token of the body
      uid |-> "u1",                                         \* subject of the access token
      db_token |-> None,        \* id of the row get_refresh_token returned
      user |-> None,            \* id of the user row the handler holds
      attempts |-> 0,           \* failed_login_attempts as loaded with that row
      result |-> "none",        \* the response
      pw_checked |-> FALSE,     \* verify_password was evaluated
      alerts |-> 0,             \* calls of send_security_alert_email
      smtp |-> TRUE,            \* the mail server accepts a message
      delivered |-> FALSE,      \* what send_security_alert_email returned
      new_id |-> None,          \* id of the refresh token this request created
      count |-> 0,              \* revoked_count of logout-all, count of the purge
      message |-> "none",       \* the message of a MessageResponse
      new_password |-> WrongPassword,   \* reset-password body
      new_email |-> UnknownEmail,       \* change-email body
      confirmation |-> "none",          \* delete-account body
      rows |-> {} ]             \* the rows a statement of the request matched

\* the response leaves the handler: the rows it held are gone (attempts
\* stays, as the record of what the request found)
Done(c, result) ==
    [c EXCEPT !.pc = "done", !.result = result,
              !.db_token = None, !.user = None]

Blocked(c) == [c EXCEPT !.pc = "blocked"]

LoginRequest(email, password) ==
    [Idle EXCEPT !.op = "login", !.pc = "l_get", !.email = email, !.password = password]
RefreshRequest(token) ==
    [Idle EXCEPT !.op = "refresh", !.pc = "r_get", !.token = token]
\* a refresh while the mail server accepts messages (smtp) or refuses them
RefreshRequestSmtp(token, smtp) ==
    [RefreshRequest(token) EXCEPT !.smtp = smtp]
LogoutRequest(token, uid) ==
    [Idle EXCEPT !.op = "logout", !.pc = "o_get", !.token = token, !.uid = uid]
LogoutAllRequest(uid) ==
    [Idle EXCEPT !.op = "logout_all", !.pc = "a_get", !.uid = uid]

ResendVerificationRequest(email) ==
    [Idle EXCEPT !.op = "resend_verification", !.pc = "rv_get", !.email = email]
ChangeEmailRequest(uid, password, new_email) ==
    [Idle EXCEPT !.op = "request_email_change", !.pc = "ec_get", !.uid = uid,
                 !.password = password, !.new_email = new_email]
VerifyEmailRequest(token) ==
    [Idle EXCEPT !.op = "verify_email", !.pc = "ve_get", !.token = token]
ForgotPasswordRequest(email) ==
    [Idle EXCEPT !.op = "forgot_password", !.pc = "fp_get", !.email = email]
ResetPasswordRequest(token, new_password) ==
    [Idle EXCEPT !.op = "reset_password", !.pc = "rp_get", !.token = token,
                 !.new_password = new_password]
ChangePasswordRequest(uid, current_password, new_password) ==
    [Idle EXCEPT !.op = "change_password", !.pc = "cp_get", !.uid = uid,
                 !.password = current_password, !.new_password = new_password]
DeactivateRequest(uid, password) ==
    [Idle EXCEPT !.op = "deactivate_account", !.pc = "da_get", !.uid = uid,
                 !.password = password]
ActivateRequest(uid) ==
    [Idle EXCEPT !.op = "activate_account", !.pc = "ac_get", !.uid = uid]
DeleteAccountRequest(uid, password, confirmation) ==
    [Idle EXCEPT !.op = "delete_account", !.pc = "dl_get", !.uid = uid,
                 !.password = password, !.confirmation = confirmation]
\* cleanup_deactivated_users, called by the startup event of app/main.py
CleanupRequest ==
    [Idle EXCEPT !.op = "cleanup_deactivated_users", !.pc = "cu_query"]

RegisterRequest(email, password) ==
    [Idle EXCEPT !.op = "register", !.pc = "g_get", !.email = email,
                 !.password = password]
\* session_id is the id of a refresh-token row; the model's rows have their
\* value as id
RevokeSessionRequest(uid, session_id) ==
    [Idle EXCEPT !.op = "revoke_session", !.pc = "s_get", !.uid = uid,
                 !.token = session_id]
\* cleanup_expired_tokens, the periodic task
PurgeRequest ==
    [Idle EXCEPT !.op = "cleanup_expired_tokens", !.pc = "ct_delete"]

\* a response with a message body
Reply(c, result, message) ==
    [Done(c, result) EXCEPT !.message = message, !.rows = {}]

Out(d, c) == [db |-> d, call |-> c]

----------------------------------------------------------------------------
(* app/dependencies.py *)

\* get_current_user: the access token names an existing, active user
get_current_user(d, uid) ==
    IF uid \notin DOMAIN d.users THEN "unauthorized"
    ELSE IF ~d.users[uid].is_active THEN "forbidden"
    ELSE "ok"

get_current_active_user(d, uid) ==
    LET auth == get_current_user(d, uid)
    IN  IF auth # "ok" THEN auth
        ELSE IF ~d.users[uid].is_active THEN "forbidden"
        ELSE "ok"

get_current_verified_user(d, uid) ==
    LET auth == get_current_active_user(d, uid)
    IN  IF auth # "ok" THEN auth
        ELSE IF ~d.users[uid].is_verified THEN "forbidden"
        ELSE "ok"

----------------------------------------------------------------------------
(* app/api/auth.py: login, one operator per database statement *)

\* login_verified with the refused login counted as a failed one
login_verified_counted(d, c, u) ==
    IF REQUIRE_EMAIL_VERIFICATION /\ ~d.users[u].is_verified
    THEN Out([d EXCEPT !.users[u].failed_login_attempts = @ + 1],
             Done(c, "email_not_verified"))
    ELSE Out(d, [c EXCEPT !.pc = "l_reset"])

\* the email-verification gate, then on to reset_failed_login
login_verified(d, c, u) ==
    IF REQUIRE_EMAIL_VERIFICATION /\ ~d.users[u].is_verified
    THEN Out(d, Done(c, "email_not_verified"))
    ELSE Out(d, [c EXCEPT !.pc = "l_reset"])

\* login_get with the email-verification gate ahead of the password check
login_get_verified_first(d, c, t) ==
    LET found == get_user_by_email(d, c.email)
        u == Val(found)
    IN  IF found = None THEN Out(d, Done(c, "invalid_credentials"))
        ELSE IF is_user_locked(d.users[u], t) THEN Out(d, Done(c, "account_locked"))
        ELSE IF REQUIRE_EMAIL_VERIFICATION /\ ~d.users[u].is_verified
        THEN Out(d, Done(c, "email_not_verified"))
        ELSE LET c1 == [c EXCEPT !.user = found, !.pw_checked = TRUE,
                                 !.attempts = d.users[u].failed_login_attempts]
             IN  IF ~verify_password(c.password, d.users[u].hashed_password)
                 THEN Out(d, [c1 EXCEPT !.pc = "l_incr"])
                 ELSE IF ~d.users[u].is_active
                 THEN Out(d, [c1 EXCEPT !.pc = "l_activate"])
                 ELSE login_verified(d, c1, u)

\* get_user_by_email, the lock check and the password check, all on the
\* row as loaded
login_get(d, c, t) ==
    LET found == get_user_by_email(d, c.email)
        u == Val(found)
    IN  IF found = None THEN Out(d, Done(c, "invalid_credentials"))
        ELSE IF is_user_locked(d.users[u], t) THEN Out(d, Done(c, "account_locked"))
        ELSE LET c1 == [c EXCEPT !.user = found, !.pw_checked = TRUE,
                                 !.attempts = d.users[u].failed_login_attempts]
             IN  IF ~verify_password(c.password, d.users[u].hashed_password)
                 THEN Out(d, [c1 EXCEPT !.pc = "l_incr"])
                 ELSE IF ~d.users[u].is_active
                 THEN Out(d, [c1 EXCEPT !.pc = "l_activate"])
                 ELSE login_verified(d, c1, u)

login_incr(d, c, t) ==
    IF c.attempts + 1 > MaxFailed THEN Out(d, Blocked(c))
    ELSE Out(increment_failed_login(d, Val(c.user), c.attempts, t),
             Done(c, "invalid_credentials"))

\* login without the reactivation of a deactivated account
login_activate_skipped(d, c, t) ==
    login_verified(d, c, Val(c.user))

\* activate_user ends with db.refresh: the handler's row is the current one
login_activate(d, c, t) ==
    LET d1 == activate_user(d, Val(c.user))
    IN  login_verified(d1, c, Val(c.user))

login_reset(d, c, t) ==
    Out(reset_failed_login(d, Val(c.user), t), [c EXCEPT !.pc = "l_create"])

\* login_create with the token stored in the family of the first token
login_create_same_family(d, c, t) ==
    IF d.nextTok > MaxTokens THEN Out(d, Blocked(c))
    ELSE Out(create_refresh_token(d, Val(c.user), t + REFRESH_TOKEN_EXPIRE, Some(1)),
             Done([c EXCEPT !.new_id = Some(d.nextTok)], "ok"))

\* security.create_token_pair and crud.create_refresh_token: a new family
login_create(d, c, t) ==
    IF d.nextTok > MaxTokens THEN Out(d, Blocked(c))
    ELSE Out(create_refresh_token(d, Val(c.user), t + REFRESH_TOKEN_EXPIRE, None),
             Done([c EXCEPT !.new_id = Some(d.nextTok)], "ok"))

----------------------------------------------------------------------------
(* app/api/auth.py: refresh_token *)

\* get_refresh_token, then the checks on the row as loaded
refresh_get(d, c, t) ==
    LET found == get_refresh_token(d, c.token)
        row == d.tokens[Val(found)]
    IN  IF found = None THEN Out(d, Done(c, "not_found"))
        ELSE IF row.is_revoked
        THEN Out(d, [c EXCEPT !.db_token = found, !.pc = "r_family"])
        ELSE IF row.expires_at < t THEN Out(d, Done(c, "expired"))
        ELSE Out(d, [c EXCEPT !.db_token = found, !.pc = "r_user"])

\* refresh_family with the revocation left for after the alert
refresh_family_deferred(d, c, t) ==
    Out(d, [c EXCEPT !.pc = "r_alert"])

\* reuse detection: the family is revoked and committed
refresh_family(d, c, t) ==
    Out(revoke_token_family(d, d.tokens[Val(c.db_token)].family_id, t),
        [c EXCEPT !.pc = "r_alert"])

\* refresh_alert with the call of send_security_alert_email left out
refresh_alert_silent(d, c, t) ==
    Out(d, Done(c, "revoked_reused"))

\* send_security_alert_email: send_email catches every exception and
\* returns False, the handler drops the result and raises the 401
refresh_alert(d, c, t) ==
    Out(d, Done([c EXCEPT !.alerts = @ + 1, !.delivered = c.smtp], "revoked_reused"))

\* user = db_token.user, a lazy load
refresh_user(d, c, t) ==
    LET u == d.tokens[Val(c.db_token)].user_id
    IN  IF ~d.users[u].is_active
        THEN Out(d, [c EXCEPT !.user = Some(u), !.pc = "r_activate"])
        ELSE Out(d, [c EXCEPT !.user = Some(u), !.pc = "r_create"])

refresh_activate(d, c, t) ==
    Out(activate_user(d, Val(c.user)), [c EXCEPT !.pc = "r_create"])

\* the successor is stored in the family of the presented token
refresh_create(d, c, t) ==
    IF d.nextTok > MaxTokens THEN Out(d, Blocked(c))
    ELSE Out(create_refresh_token(d, Val(c.user), t + REFRESH_TOKEN_EXPIRE,
                                  Some(d.tokens[Val(c.db_token)].family_id)),
             [c EXCEPT !.new_id = Some(d.nextTok), !.pc = "r_revoke"])

\* refresh_revoke with replaced_by not passed on
refresh_revoke_unlinked(d, c, t) ==
    Out(revoke_refresh_token(d, Val(c.db_token), None, t), Done(c, "ok"))

\* refresh_revoke with the presented token passed as its own successor
refresh_revoke_self_linked(d, c, t) ==
    Out(revoke_refresh_token(d, Val(c.db_token), c.db_token, t), Done(c, "ok"))

\* the presented token is revoked, whatever its row holds by now
refresh_revoke(d, c, t) ==
    Out(revoke_refresh_token(d, Val(c.db_token), c.new_id, t), Done(c, "ok"))

----------------------------------------------------------------------------
(* app/api/auth.py: logout, logout_all_sessions *)

\* logout_get without the comparison of user_id with the current user
logout_get_any_owner(d, c, t) ==
    LET auth == get_current_user(d, c.uid)
        found == get_refresh_token(d, c.token)
    IN  IF auth # "ok" THEN Out(d, Done(c, auth))
        ELSE IF found # None
        THEN Out(d, [c EXCEPT !.db_token = found, !.pc = "o_revoke"])
        ELSE Out(d, Done(c, "ok"))

logout_get(d, c, t) ==
    LET auth == get_current_user(d, c.uid)
        found == get_refresh_token(d, c.token)
    IN  IF auth # "ok" THEN Out(d, Done(c, auth))
        ELSE IF found # None /\ d.tokens[Val(found)].user_id = c.uid
        THEN Out(d, [c EXCEPT !.db_token = found, !.pc = "o_revoke"])
        ELSE Out(d, Done(c, "ok"))

logout_revoke(d, c, t) ==
    Out(revoke_refresh_token(d, Val(c.db_token), None, t), Done(c, "ok"))

logout_all_get(d, c, t) ==
    LET auth == get_current_user(d, c.uid)
    IN  IF auth # "ok" THEN Out(d, Done(c, auth))
        ELSE Out(d, [c EXCEPT !.pc = "a_revoke"])

logout_all_revoke(d, c, t) ==
    LET r == revoke_all_user_tokens(d, c.uid, t)
    IN  Out(r.db, Done([c EXCEPT !.count = r.result], "ok"))

----------------------------------------------------------------------------
(* app/api/auth.py: register *)

register_get(d, c, t) ==
    IF get_user_by_email(d, c.email) # None
    THEN Out(d, Reply(c, "bad_request", "An account with this email already exists."))
    ELSE Out(d, [c EXCEPT !.pc = "g_create"])

\* create_user; users.email is unique, so the commit of an address a user
\* holds by now raises IntegrityError
register_create(d, c, t) ==
    LET free == NewUserIds \ DOMAIN d.users
        id == CHOOSE u \in free : TRUE
    IN  IF \E v \in DOMAIN d.users : d.users[v].email = c.email
        THEN Out(d, Reply(c, "error", "Internal Server Error"))
        ELSE IF free = {} THEN Out(d, Blocked(c))
        ELSE IF REQUIRE_EMAIL_VERIFICATION
        THEN Out(create_user(d, id, c.email, c.password),
                 [c EXCEPT !.user = Some(id), !.pc = "g_update"])
        ELSE Out(create_user(d, id, c.email, c.password),
                 Reply(c, "ok", "Registration successful."))

\* the UPDATE of create_verification_token, in the open transaction
register_update(d, c, t) ==
    Out(d, [c EXCEPT !.rows = UnusedVerificationTokens(d, Val(c.user), "email_verification"),
                     !.pc = "g_insert"])

register_insert(d, c, t) ==
    IF d.nextSecret > MaxSecrets THEN Out(d, Blocked(c))
    ELSE Out(create_verification_token(d, Val(c.user), "email_verification", None, c.rows, t),
             Reply([c EXCEPT !.new_id = Some(d.nextSecret)], "ok",
                   "Registration successful. Please check your email to verify your account."))

----------------------------------------------------------------------------
(* app/api/auth.py: revoke_session; app/db/crud.py: cleanup_expired_tokens *)

\* get_user_active_sessions and the search of session_id in its rows
revoke_session_get(d, c, t) ==
    LET auth == get_current_active_user(d, c.uid)
        sessions == get_user_active_sessions(d, c.uid, t)
    IN  IF auth # "ok" THEN Out(d, Done(c, auth))
        ELSE IF c.token \notin sessions
        THEN Out(d, Reply(c, "not_found", "Session not found"))
        ELSE Out(d, [c EXCEPT !.db_token = Some(c.token), !.pc = "s_revoke"])

revoke_session_revoke(d, c, t) ==
    Out(revoke_refresh_token(d, Val(c.db_token), None, t),
        Reply(c, "ok", "Session revoked successfully"))

cleanup_expired_tokens_delete(d, c, t) ==
    LET r == cleanup_expired_tokens(d, t)
    IN  Out(r.db, Done([c EXCEPT !.count = r.result], "ok"))

----------------------------------------------------------------------------
(* app/api/auth.py: resend_verification, request_email_change, verify_email *)

VerificationSent ==
    "If an account exists with this email, a verification link has been sent."

resend_verification_get(d, c, t) ==
    LET found == get_user_by_email(d, c.email)
    IN  IF found = None THEN Out(d, Reply(c, "ok", VerificationSent))
        ELSE IF d.users[Val(found)].is_verified
        THEN Out(d, Reply(c, "ok", "Email is already verified."))
        ELSE Out(d, [c EXCEPT !.user = found, !.pc = "rv_update"])

\* the UPDATE of create_verification_token, in the open transaction
resend_verification_update(d, c, t) ==
    Out(d, [c EXCEPT !.rows = UnusedVerificationTokens(d, Val(c.user), "email_verification"),
                     !.pc = "rv_insert"])

resend_verification_insert(d, c, t) ==
    IF d.nextSecret > MaxSecrets THEN Out(d, Blocked(c))
    ELSE Out(create_verification_token(d, Val(c.user), "email_verification", None, c.rows, t),
             Reply([c EXCEPT !.new_id = Some(d.nextSecret)], "ok", VerificationSent))

request_email_change_get(d, c, t) ==
    LET auth == get_current_verified_user(d, c.uid)
    IN  IF auth # "ok" THEN Out(d, Done(c, auth))
        ELSE IF ~verify_password(c.password, d.users[c.uid].hashed_password)
        THEN Out(d, Reply(c, "bad_request", "Password is incorrect"))
        ELSE Out(d, [c EXCEPT !.user = Some(c.uid), !.pc = "ec_existing"])

request_email_change_existing(d, c, t) ==
    IF get_user_by_email(d, c.new_email) # None
    THEN Out(d, Reply(c, "bad_request", "This email is already in use"))
    ELSE Out(d, [c EXCEPT !.pc = "ec_update"])

request_email_change_update(d, c, t) ==
    Out(d, [c EXCEPT !.rows = UnusedVerificationTokens(d, Val(c.user), "email_change"),
                     !.pc = "ec_insert"])

request_email_change_insert(d, c, t) ==
    IF d.nextSecret > MaxSecrets THEN Out(d, Blocked(c))
    ELSE Out(create_verification_token(d, Val(c.user), "email_change", Some(c.new_email), c.rows, t),
             Reply([c EXCEPT !.new_id = Some(d.nextSecret)], "ok",
                   "Verification email sent to your new email address."))

verify_email_get(d, c, t) ==
    LET found == get_verification_token(d, c.token, t)
    IN  IF found = None
        THEN Out(d, Reply(c, "token_invalid", "Invalid or expired verification token."))
        ELSE Out(d, [c EXCEPT !.db_token = found,
                              !.user = Some(d.vtokens[Val(found)].user_id),
                              !.pc = "ve_user"])

\* verify_email_user on a users table whose email column is not unique
verify_email_user_unconstrained(d, c, t) ==
    LET row == d.vtokens[Val(c.db_token)]
        u == Val(c.user)
    IN  IF row.token_type = "email_change" /\ row.new_email # None
        THEN Out(update_user_email(d, u, Val(row.new_email)),
                 [c EXCEPT !.message = "Email address updated successfully.",
                           !.pc = "ve_use"])
        ELSE Out(verify_user_email(d, u),
                 [c EXCEPT !.message = "Email verified successfully. You can now log in.",
                           !.pc = "ve_use"])

\* update_user_email or verify_user_email; users.email is unique, so the
\* commit of an address another user holds raises IntegrityError
verify_email_user(d, c, t) ==
    LET row == d.vtokens[Val(c.db_token)]
        u == Val(c.user)
    IN  IF row.token_type = "email_change" /\ row.new_email # None
        THEN IF \E v \in DOMAIN d.users \ {u} : d.users[v].email = Val(row.new_email)
             THEN Out(d, Reply(c, "error", "Internal Server Error"))
             ELSE Out(update_user_email(d, u, Val(row.new_email)),
                      [c EXCEPT !.message = "Email address updated successfully.",
                                !.pc = "ve_use"])
        ELSE Out(verify_user_email(d, u),
                 [c EXCEPT !.message = "Email verified successfully. You can now log in.",
                           !.pc = "ve_use"])

verify_email_use(d, c, t) ==
    Out(use_verification_token(d, Val(c.db_token)), Reply(c, "ok", c.message))

----------------------------------------------------------------------------
(* app/api/auth.py: forgot_password, reset_password *)

ResetSent ==
    "If an account exists with this email, a password reset link has been sent."

\* forgot_password_get without the test of user.is_active
forgot_password_get_inactive(d, c, t) ==
    LET found == get_user_by_email(d, c.email)
    IN  IF found # None
        THEN Out(d, [c EXCEPT !.user = found, !.pc = "fp_update"])
        ELSE Out(d, Reply(c, "ok", ResetSent))

forgot_password_get(d, c, t) ==
    LET found == get_user_by_email(d, c.email)
    IN  IF found # None /\ d.users[Val(found)].is_active
        THEN Out(d, [c EXCEPT !.user = found, !.pc = "fp_update"])
        ELSE Out(d, Reply(c, "ok", ResetSent))

\* the UPDATE of create_password_reset_token, in the open transaction
forgot_password_update(d, c, t) ==
    Out(d, [c EXCEPT !.rows = UnusedPasswordResetTokens(d, Val(c.user)),
                     !.pc = "fp_insert"])

forgot_password_insert(d, c, t) ==
    IF d.nextSecret > MaxSecrets THEN Out(d, Blocked(c))
    ELSE Out(create_password_reset_token(d, Val(c.user), c.rows, t),
             Reply([c EXCEPT !.new_id = Some(d.nextSecret)], "ok", ResetSent))

reset_password_get(d, c, t) ==
    LET found == get_password_reset_token(d, c.token, t)
    IN  IF found = None
        THEN Out(d, Reply(c, "token_invalid", "Invalid or expired password reset token."))
        ELSE Out(d, [c EXCEPT !.db_token = found,
                              !.user = Some(d.ptokens[Val(found)].user_id),
                              !.pc = "rp_password"])

reset_password_password(d, c, t) ==
    Out(update_user_password(d, Val(c.user), c.new_password), [c EXCEPT !.pc = "rp_use"])

reset_password_use(d, c, t) ==
    Out(use_password_reset_token(d, Val(c.db_token)), [c EXCEPT !.pc = "rp_revoke"])

\* reset_password ending without revoke_all_user_tokens
reset_password_revoke_none(d, c, t) ==
    Out(d, Reply(c, "ok",
        "Password has been reset successfully. Please log in with your new password."))

reset_password_revoke(d, c, t) ==
    Out(revoke_all_user_tokens(d, Val(c.user), t).db, Reply(c, "ok",
        "Password has been reset successfully. Please log in with your new password."))

\* change_password: the current password is verified against the hash of
\* the user the dependency loaded, then the new one is compared with it
change_password_get(d, c, t) ==
    LET auth == get_current_active_user(d, c.uid)
    IN  IF auth # "ok" THEN Out(d, Done(c, auth))
        ELSE IF ~verify_password(c.password, d.users[c.uid].hashed_password)
        THEN Out(d, Reply(c, "bad_request", "Current password is incorrect"))
        ELSE IF verify_password(c.new_password, d.users[c.uid].hashed_password)
        THEN Out(d, Reply(c, "bad_request",
                 "New password must be different from current password"))
        ELSE Out(d, [c EXCEPT !.user = Some(c.uid), !.pc = "cp_password"])

change_password_password(d, c, t) ==
    Out(update_user_password(d, Val(c.user), c.new_password),
        [c EXCEPT !.pc = "cp_revoke"])

\* change_password ending without revoke_all_user_tokens
change_password_revoke_none(d, c, t) ==
    Out(d, Reply(c, "ok", "Password changed successfully. Please log in again."))

change_password_revoke(d, c, t) ==
    Out(revoke_all_user_tokens(d, Val(c.user), t).db,
        Reply(c, "ok", "Password changed successfully. Please log in again."))

----------------------------------------------------------------------------
(* app/api/users.py: deactivate_account, delete_account; app/main.py: the
   startup call of cleanup_deactivated_users *)

deactivate_account_get(d, c, t) ==
    LET auth == get_current_active_user(d, c.uid)
    IN  IF auth # "ok" THEN Out(d, Done(c, auth))
        ELSE IF ~verify_password(c.password, d.users[c.uid].hashed_password)
        THEN Out(d, Reply(c, "bad_request", "Incorrect password"))
        ELSE Out(d, [c EXCEPT !.user = Some(c.uid), !.pc = "da_revoke"])

deactivate_account_revoke(d, c, t) ==
    Out(revoke_all_user_tokens(d, Val(c.user), t).db, [c EXCEPT !.pc = "da_deactivate"])

deactivate_account_deactivate(d, c, t) ==
    Out(deactivate_user(d, Val(c.user), t),
        Reply(c, "ok", "Account deactivated successfully"))

\* activate_account depends on get_current_user, which refuses the token of
\* a deactivated user; is_active is then read from the row that dependency
\* loaded
activate_account_get(d, c, t) ==
    LET auth == get_current_user(d, c.uid)
    IN  IF auth # "ok" THEN Out(d, Done(c, auth))
        ELSE IF d.users[c.uid].is_active
        THEN Out(d, Reply(c, "ok", "Account is already active"))
        ELSE Out(d, [c EXCEPT !.user = Some(c.uid), !.pc = "ac_activate"])

activate_account_activate(d, c, t) ==
    Out(activate_user(d, Val(c.user)),
        Reply(c, "ok", "Account reactivated successfully"))

delete_account_get(d, c, t) ==
    LET auth == get_current_active_user(d, c.uid)
    IN  IF auth # "ok" THEN Out(d, Done(c, auth))
        ELSE IF ~verify_password(c.password, d.users[c.uid].hashed_password)
        THEN Out(d, Reply(c, "bad_request", "Incorrect password"))
        ELSE IF c.confirmation # "DELETE"
        THEN Out(d, Reply(c, "bad_request",
                          "Please type 'DELETE' to confirm account deletion"))
        ELSE Out(d, [c EXCEPT !.user = Some(c.uid), !.pc = "dl_delete"])

delete_account_delete(d, c, t) ==
    Out(delete_user(d, Val(c.user)),
        Reply(c, "ok", "Account and all associated data deleted successfully"))

\* the query of cleanup_deactivated_users: the list the loop walks
cleanup_deactivated_users_query(d, c, t) ==
    Out(d, [c EXCEPT !.rows = expired_users(d, t), !.pc = "cu_delete"])

\* one turn of the loop, delete_user with its own commit, or the return of
\* count
cleanup_deactivated_users_delete(d, c, t) ==
    IF c.rows = {} THEN Out(d, Reply(c, "ok", "none"))
    ELSE LET u == CHOOSE v \in c.rows : TRUE
         IN  Out(delete_user(d, u),
                 [c EXCEPT !.rows = @ \ {u}, !.count = @ + 1])

----------------------------------------------------------------------------
(* One database statement of the request c, at time t *)

Step(d, c, t) ==
    CASE c.pc = "l_get"      -> login_get(d, c, t)
      [] c.pc = "l_incr"     -> login_incr(d, c, t)
      [] c.pc = "l_activate" -> login_activate(d, c, t)
      [] c.pc = "l_reset"    -> login_reset(d, c, t)
      [] c.pc = "l_create"   -> login_create(d, c, t)
      [] c.pc = "r_get"      -> refresh_get(d, c, t)
      [] c.pc = "r_family"   -> refresh_family(d, c, t)
      [] c.pc = "r_alert"    -> refresh_alert(d, c, t)
      [] c.pc = "r_user"     -> refresh_user(d, c, t)
      [] c.pc = "r_activate" -> refresh_activate(d, c, t)
      [] c.pc = "r_create"   -> refresh_create(d, c, t)
      [] c.pc = "r_revoke"   -> refresh_revoke(d, c, t)
      [] c.pc = "o_get"      -> logout_get(d, c, t)
      [] c.pc = "o_revoke"   -> logout_revoke(d, c, t)
      [] c.pc = "a_get"      -> logout_all_get(d, c, t)
      [] c.pc = "a_revoke"   -> logout_all_revoke(d, c, t)
      [] c.pc = "rv_get"     -> resend_verification_get(d, c, t)
      [] c.pc = "rv_update"  -> resend_verification_update(d, c, t)
      [] c.pc = "rv_insert"  -> resend_verification_insert(d, c, t)
      [] c.pc = "ec_get"     -> request_email_change_get(d, c, t)
      [] c.pc = "ec_existing" -> request_email_change_existing(d, c, t)
      [] c.pc = "ec_update"  -> request_email_change_update(d, c, t)
      [] c.pc = "ec_insert"  -> request_email_change_insert(d, c, t)
      [] c.pc = "ve_get"     -> verify_email_get(d, c, t)
      [] c.pc = "ve_user"    -> verify_email_user(d, c, t)
      [] c.pc = "ve_use"     -> verify_email_use(d, c, t)
      [] c.pc = "fp_get"     -> forgot_password_get(d, c, t)
      [] c.pc = "fp_update"  -> forgot_password_update(d, c, t)
      [] c.pc = "fp_insert"  -> forgot_password_insert(d, c, t)
      [] c.pc = "rp_get"     -> reset_password_get(d, c, t)
      [] c.pc = "rp_password" -> reset_password_password(d, c, t)
      [] c.pc = "rp_use"     -> reset_password_use(d, c, t)
      [] c.pc = "rp_revoke"  -> reset_password_revoke(d, c, t)
      [] c.pc = "da_get"     -> deactivate_account_get(d, c, t)
      [] c.pc = "da_revoke"  -> deactivate_account_revoke(d, c, t)
      [] c.pc = "da_deactivate" -> deactivate_account_deactivate(d, c, t)
      [] c.pc = "dl_get"     -> delete_account_get(d, c, t)
      [] c.pc = "dl_delete"  -> delete_account_delete(d, c, t)
      [] c.pc = "cu_query"   -> cleanup_deactivated_users_query(d, c, t)
      [] c.pc = "cu_delete"  -> cleanup_deactivated_users_delete(d, c, t)
      [] c.pc = "cp_get"     -> change_password_get(d, c, t)
      [] c.pc = "cp_password" -> change_password_password(d, c, t)
      [] c.pc = "cp_revoke"  -> change_password_revoke(d, c, t)
      [] c.pc = "ac_get"     -> activate_account_get(d, c, t)
      [] c.pc = "ac_activate" -> activate_account_activate(d, c, t)
      [] c.pc = "g_get"      -> register_get(d, c, t)
      [] c.pc = "g_create"   -> register_create(d, c, t)
      [] c.pc = "g_update"   -> register_update(d, c, t)
      [] c.pc = "g_insert"   -> register_insert(d, c, t)
      [] c.pc = "s_get"      -> revoke_session_get(d, c, t)
      [] c.pc = "s_revoke"   -> revoke_session_revoke(d, c, t)
      [] c.pc = "ct_delete"  -> cleanup_expired_tokens_delete(d, c, t)

\* a handler run to its response with no other request in between
RECURSIVE Run(_, _, _)
Run(d, c, t) ==
    IF c.pc \in {"done", "blocked"} THEN Out(d, c)
    ELSE LET r == Step(d, c, t) IN Run(r.db, r.call, t)

----------------------------------------------------------------------------
(* Actions *)

Commit(r, p) ==
    /\ users' = r.db.users
    /\ tokens' = r.db.tokens
    /\ nextTok' = r.db.nextTok
    /\ vtokens' = r.db.vtokens
    /\ ptokens' = r.db.ptokens
    /\ nextSecret' = r.db.nextSecret
    /\ proc' = [proc EXCEPT ![p] = r.call]
    /\ UNCHANGED now

\* the whole handler of request c, served by p
Call(p, c) ==
    /\ proc[p].pc = "idle"
    /\ \E r \in {Run(DB, c, now)} :
          r.call.pc = "done" /\ Commit(r, p)

\* request c enters its handler
Begin(p, c) ==
    /\ proc[p].pc = "idle"
    /\ proc' = [proc EXCEPT ![p] = c]
    /\ UNCHANGED <<users, tokens, nextTok, vtokens, ptokens, nextSecret, now>>

\* the next database statement of the request p serves
StepCall(p) ==
    /\ proc[p].pc \notin {"idle", "done"}
    /\ \E r \in {Step(DB, proc[p], now)} :
          r.call.pc # "blocked" /\ Commit(r, p)

\* the response is delivered
Return(p) ==
    /\ proc[p].pc = "done"
    /\ proc' = [proc EXCEPT ![p] = Idle]
    /\ UNCHANGED <<users, tokens, nextTok, vtokens, ptokens, nextSecret, now>>

Tick ==
    /\ now < MaxTime
    /\ now' = now + 1
    /\ UNCHANGED <<users, tokens, nextTok, vtokens, ptokens, nextSecret, proc>>

\* the values a client can present as a refresh token
TokenValues == DOMAIN tokens \cup UnknownTokens

Init ==
    /\ users = [u \in UserIds |-> NewUser(u)]
    /\ tokens = << >>
    /\ nextTok = 1
    /\ vtokens = << >>
    /\ ptokens = << >>
    /\ nextSecret = 1
    /\ now = 0
    /\ proc = [p \in Procs |-> Idle]

(* Spec: the session operations, one request at a time *)

Login == \E u \in UserIds : Call("p1", LoginRequest(EmailOf(u), GoodPassword))
Refresh == \E v \in TokenValues : Call("p1", RefreshRequest(v))
Logout == \E v \in TokenValues, u \in UserIds : Call("p1", LogoutRequest(v, u))
LogoutAll == \E u \in UserIds : Call("p1", LogoutAllRequest(u))
Respond == Return("p1")

Next == Login \/ Refresh \/ Logout \/ LogoutAll \/ Respond \/ Tick

Spec == Init /\ [][Next]_vars

(* SpecLockout: logins with right and wrong passwords, one at a time; the
   second account starts active or deactivated, verified or unverified. A
   deactivated account is a verified one: deactivate_account needs an access
   token, only the login of a verified account issues one, and nothing
   clears is_verified *)

InitLockout ==
    /\ \E a \in BOOLEAN, v \in BOOLEAN :
          /\ a \/ v
          /\ users = [u \in UserIds |->
                     IF u = "u1" THEN NewUser(u)
                     ELSE [NewUser(u) EXCEPT !.is_active = a,
                                             !.deactivated_at = IF a THEN None ELSE Some(0),
                                             !.is_verified = v]]
    /\ tokens = << >>
    /\ nextTok = 1
    /\ vtokens = << >>
    /\ ptokens = << >>
    /\ nextSecret = 1
    /\ now = 0
    /\ proc = [p \in Procs |-> Idle]

LoginAttempt == \E e \in Emails, pw \in Passwords : Call("p1", LoginRequest(e, pw))

NextLockout == LoginAttempt \/ Respond \/ Tick

SpecLockout == InitLockout /\ [][NextLockout]_vars

(* SpecRace: two requests in flight, interleaved statement by statement *)

BeginLogin == \E p \in Procs : Begin(p, LoginRequest(EmailOf("u1"), GoodPassword))
BeginRefresh == \E p \in Procs, v \in TokenValues : Begin(p, RefreshRequest(v))
BeginLogoutAll == \E p \in Procs : Begin(p, LogoutAllRequest("u1"))
Statement == \E p \in Procs : StepCall(p)
RespondAny == \E p \in Procs : Return(p)

NextRace == BeginLogin \/ BeginRefresh \/ BeginLogoutAll \/ Statement \/ RespondAny

SpecRace == Init /\ [][NextRace]_vars

(* SpecSingleUse: verification and password-reset tokens issued and
   consumed, one request at a time, with sessions of the first account; the
   second account starts unverified *)

InitSingleUse ==
    /\ users = [u \in UserIds |->
                  IF u = "u1" THEN NewUser(u)
                  ELSE [NewUser(u) EXCEPT !.is_verified = FALSE]]
    /\ tokens = << >>
    /\ nextTok = 1
    /\ vtokens = << >>
    /\ ptokens = << >>
    /\ nextSecret = 1
    /\ now = 0
    /\ proc = [p \in Procs |-> Idle]

\* the values a client can present as a single-use token: every value
\* either table ever issued, and one never issued
SecretValues == 1..(nextSecret - 1) \cup UnknownTokens

\* a login of user u with the password the account has now
SignIn(u) ==
    \E pw \in {GoodPassword, NewPassword} :
        /\ u \in DOMAIN users
        /\ verify_password(pw, users[u].hashed_password)
        /\ Call("p1", LoginRequest(users[u].email, pw))

ResendVerification == \E e \in Emails : Call("p1", ResendVerificationRequest(e))
RequestEmailChange == Call("p1", ChangeEmailRequest("u1", GoodPassword, NewEmail))
VerifyEmail == \E v \in SecretValues : Call("p1", VerifyEmailRequest(v))
ForgotFirst == Call("p1", ForgotPasswordRequest(EmailOf("u1")))
ResetPassword == \E v \in SecretValues : Call("p1", ResetPasswordRequest(v, NewPassword))
\* the first login there is
SignInFirst == nextTok = 1 /\ SignIn("u1")

NextSingleUse ==
    \/ ResendVerification \/ RequestEmailChange \/ VerifyEmail
    \/ ForgotFirst \/ ResetPassword
    \/ SignInFirst \/ Respond \/ Tick

SpecSingleUse == InitSingleUse /\ [][NextSingleUse]_vars

(* SpecReset: password resets among logins and refreshes of both accounts,
   one request at a time, the clock standing still; the second account
   starts as in SpecLockout *)

SignInAny == \E u \in UserIds : SignIn(u)
ForgotPassword == \E e \in Emails : Call("p1", ForgotPasswordRequest(e))

NextReset == ForgotPassword \/ ResetPassword \/ SignInAny \/ Refresh \/ Respond

SpecReset == InitLockout /\ [][NextReset]_vars

(* SpecAccount: deactivation and the purge among logins, one request at a
   time; the second account starts as in SpecLockout, and locked by
   MAX_LOGIN_ATTEMPTS failed logins at time 0 or not *)

InitAccount ==
    /\ \E a \in BOOLEAN, v \in BOOLEAN, l \in BOOLEAN :
          /\ a \/ v
          /\ users = [u \in UserIds |->
                     IF u = "u1" THEN NewUser(u)
                     ELSE [NewUser(u) EXCEPT
                             !.is_active = a,
                             !.deactivated_at = IF a THEN None ELSE Some(0),
                             !.is_verified = v,
                             !.failed_login_attempts = IF l THEN MAX_LOGIN_ATTEMPTS ELSE 0,
                             !.locked_until = IF l THEN Some(LOCKOUT_DURATION) ELSE None]]
    /\ tokens = << >>
    /\ nextTok = 1
    /\ vtokens = << >>
    /\ ptokens = << >>
    /\ nextSecret = 1
    /\ now = 0
    /\ proc = [p \in Procs |-> Idle]

\* a client can present an access token of u: login issues one to a
\* verified account only (the email gate of login), refresh to the holder of
\* a refresh token of a login, and is_verified is never cleared; the token
\* of a deleted user remains in the client's hands
HoldsAccessToken(u) == u \in DOMAIN users => users[u].is_verified

Deactivate ==
    \E u \in UserIds, pw \in Passwords :
        HoldsAccessToken(u) /\ Call("p1", DeactivateRequest(u, pw))
Cleanup == Call("p1", CleanupRequest)

NextAccount ==
    Deactivate \/ Cleanup \/ SignInAny \/ Respond \/ Tick

SpecAccount == InitAccount /\ [][NextAccount]_vars

(* SpecDelete: deletion and the purge of accounts that hold refresh,
   verification and password-reset tokens, and refreshes that present the
   tokens of a removed account, one request at a time *)

\* the refresh-token values that were issued and whose record is gone
FormerValues == 1..(nextTok - 1) \ DOMAIN tokens

DeleteAccount ==
    \E u \in UserIds, confirmation \in {"DELETE", "delete"} :
        /\ HoldsAccessToken(u)
        /\ Call("p1", DeleteAccountRequest(u, GoodPassword, confirmation))
DeactivateFirst == Call("p1", DeactivateRequest("u1", GoodPassword))
RefreshFormer == \E v \in FormerValues : Call("p1", RefreshRequest(v))
ResendSecond == Call("p1", ResendVerificationRequest(EmailOf("u2")))

NextDelete ==
    \/ DeleteAccount \/ DeactivateFirst \/ Cleanup
    \/ SignInFirst \/ RefreshFormer \/ ForgotFirst \/ ResendSecond
    \/ Respond \/ Tick

SpecDelete == InitSingleUse /\ [][NextDelete]_vars

(* SpecIssueRace: two requests that issue or consume single-use tokens in
   flight, interleaved statement by statement *)

BeginResendVerification ==
    \E p \in Procs : Begin(p, ResendVerificationRequest(EmailOf("u2")))
BeginForgotPassword ==
    \E p \in Procs : Begin(p, ForgotPasswordRequest(EmailOf("u1")))
BeginVerifyEmail ==
    \E p \in Procs, v \in SecretValues : Begin(p, VerifyEmailRequest(v))
BeginResetPassword ==
    \E p \in Procs, v \in SecretValues : Begin(p, ResetPasswordRequest(v, NewPassword))

NextIssueRace ==
    \/ BeginResendVerification \/ BeginForgotPassword
    \/ BeginVerifyEmail \/ BeginResetPassword
    \/ Statement \/ RespondAny

SpecIssueRace == InitSingleUse /\ [][NextIssueRace]_vars

(* SpecLockRace: logins of the first account with its password and with a
   wrong one, two in flight, interleaved statement by statement *)

BeginWrongLogin ==
    \E p \in Procs : Begin(p, LoginRequest(EmailOf("u1"), WrongPassword))

NextLockRace == BeginWrongLogin \/ BeginLogin \/ Statement \/ RespondAny

SpecLockRace == Init /\ [][NextLockRace]_vars

(* SpecRegister: accounts registered, verified, logged in and deactivated,
   and the email of the first account changed, one request at a time, the
   clock standing still *)

\* the addresses registrations ask for: a new one, and one an account holds
RegisterEmails == {NewEmail, EmailOf("u1")}

\* a login or a refresh of u has succeeded, so that a client holds an
\* access token of u (no refresh-token record is removed here)
LoggedIn(u) == \E i \in DOMAIN tokens : tokens[i].user_id = u

Register == \E e \in RegisterEmails : Call("p1", RegisterRequest(e, GoodPassword))
SignInRegistered == \E u \in UserIds \cup NewUserIds : SignIn(u)
DeactivateLoggedIn ==
    \E u \in DOMAIN users : LoggedIn(u) /\ Call("p1", DeactivateRequest(u, GoodPassword))
RequestEmailChangeLoggedIn ==
    LoggedIn("u1") /\ Call("p1", ChangeEmailRequest("u1", GoodPassword, NewEmail))

NextRegister ==
    \/ Register \/ VerifyEmail \/ SignInRegistered
    \/ DeactivateLoggedIn \/ RequestEmailChangeLoggedIn
    \/ Respond

SpecRegister == Init /\ [][NextRegister]_vars

(* SpecRegisterRace: registrations, email changes of the first account and
   their confirmations, two in flight, interleaved statement by statement *)

BeginRegister ==
    \E p \in Procs, e \in RegisterEmails : Begin(p, RegisterRequest(e, GoodPassword))
BeginRequestEmailChange ==
    \E p \in Procs : Begin(p, ChangeEmailRequest("u1", GoodPassword, NewEmail))

NextRegisterRace ==
    \/ BeginRegister \/ BeginRequestEmailChange \/ BeginVerifyEmail
    \/ Statement \/ RespondAny

SpecRegisterRace == Init /\ [][NextRegisterRace]_vars

(* SpecAlert: logins and refreshes of the first account, two in flight,
   interleaved statement by statement, the mail server up or down *)

BeginRefreshSmtp ==
    \E p \in Procs, v \in TokenValues, smtp \in BOOLEAN :
        Begin(p, RefreshRequestSmtp(v, smtp))

NextAlert == BeginLogin \/ BeginRefreshSmtp \/ Statement \/ RespondAny

SpecAlert == Init /\ [][NextAlert]_vars

(* SpecActivate: deactivation and reactivation among logins, one request
   at a time, the clock standing still *)

Activate == \E u \in UserIds : Call("p1", ActivateRequest(u))

NextActivate == Deactivate \/ Activate \/ SignInAny \/ Respond

SpecActivate == Init /\ [][NextActivate]_vars

(* SpecDeactivateRace: deactivation of the first account among its logins
   and refreshes, two requests in flight, interleaved statement by
   statement *)

BeginDeactivate ==
    \E p \in Procs :
        HoldsAccessToken("u1") /\ Begin(p, DeactivateRequest("u1", GoodPassword))

NextDeactivateRace ==
    BeginLogin \/ BeginRefresh \/ BeginDeactivate \/ Statement \/ RespondAny

SpecDeactivateRace == Init /\ [][NextDeactivateRace]_vars

(* SpecChangePassword: password changes of logged-in users among logins and
   refreshes, one request at a time, the clock standing still *)

ChangePassword ==
    \E u \in UserIds, pw \in Passwords \cup {NewPassword},
       new \in {GoodPassword, NewPassword} :
        LoggedIn(u) /\ Call("p1", ChangePasswordRequest(u, pw, new))

NextChangePassword == SignInAny \/ ChangePassword \/ Refresh \/ Respond

SpecChangePassword == Init /\ [][NextChangePassword]_vars

(* SpecSessions: sessions of both accounts opened, rotated, revoked one by
   one and purged after their expiry, one request at a time *)

\* the ids a client can name as a session: every id ever given to a
\* refresh token, and one never given
SessionIds == 1..(nextTok - 1) \cup UnknownTokens

RevokeSession ==
    \E u \in UserIds, i \in SessionIds : Call("p1", RevokeSessionRequest(u, i))
PurgeExpired == Call("p1", PurgeRequest)

NextSessions == Login \/ Refresh \/ RevokeSession \/ PurgeExpired \/ Respond \/ Tick

SpecSessions == Init /\ [][NextSessions]_vars

(* SpecPurge: every operation that writes refresh tokens, on the sessions
   that follow from one login of the first account, and the expiry purge,
   one request at a time *)

LogoutFirst == \E v \in TokenValues : Call("p1", LogoutRequest(v, "u1"))
LogoutAllFirst == Call("p1", LogoutAllRequest("u1"))
RevokeSessionFirst == \E i \in SessionIds : Call("p1", RevokeSessionRequest("u1", i))

\* time passes between two requests
TickIdle == proc["p1"].pc = "idle" /\ Tick
\* the first password-reset request there is
ForgotOnce == nextSecret = 1 /\ ForgotFirst

NextPurge ==
    \/ SignInFirst \/ Refresh \/ LogoutFirst \/ LogoutAllFirst \/ RevokeSessionFirst
    \/ ForgotOnce \/ ResetPassword \/ DeactivateFirst
    \/ PurgeExpired \/ Respond \/ TickIdle

SpecPurge == Init /\ [][NextPurge]_vars

----------------------------------------------------------------------------
(* Properties *)

\* the step is the whole handler of a request served by p
Completes(p) == proc[p].pc = "idle" /\ proc'[p].pc = "done"

\* the row a presented value names before the step, None if there is none
Presented(p) == get_refresh_token(DB, proc'[p].token)

DoneWith(p, op, result) ==
    proc[p].pc = "done" /\ proc[p].op = op /\ proc[p].result = result

(* C1: two refresh requests presenting the same refresh token never both
   succeed, however their statements interleave: of two answered requests
   for one token at most one has a new token pair. *)
C1_OneRefreshWins ==
    \A p \in Procs, q \in Procs :
        (p # q /\ proc[p].token = proc[q].token)
            => ~(DoneWith(p, "refresh", "ok") /\ DoneWith(q, "refresh", "ok"))

(* C2: after a successful refresh the presented token is revoked and its
   replaced_by is the id of the one token the request created; that token is
   the one returned, has the family and the owner of the presented token, is
   not revoked and expires in the future. *)
C2_RotationInvariant ==
    [][\A p \in Procs :
        (Completes(p) /\ proc'[p].op = "refresh" /\ proc'[p].result = "ok")
        => /\ Presented(p) # None
           /\ LET old == Val(Presented(p))
              IN  /\ old \in DOMAIN tokens'
                  /\ tokens'[old].is_revoked
                  /\ \E new \in DOMAIN tokens' :
                        /\ DOMAIN tokens' \ DOMAIN tokens = {new}
                        /\ tokens'[old].replaced_by = Some(new)
                        /\ proc'[p].new_id = Some(new)
                        /\ tokens'[new].family_id = tokens[old].family_id
                        /\ tokens'[new].user_id = tokens[old].user_id
                        /\ ~tokens'[new].is_revoked
                        /\ tokens'[new].expires_at > now'
    ]_vars

C2_Witness ==
    \E p \in Procs :
        /\ DoneWith(p, "refresh", "ok")
        /\ \E i \in DOMAIN tokens :
              /\ tokens[i].token = proc[p].token
              /\ tokens[i].replaced_by = proc[p].new_id

(* C3: a refresh that presents an already revoked token fails as
   revoked_reused and leaves every token of the family of that token
   revoked, the newest included; a revoked token stays revoked, so a later
   refresh with the newest token fails the same way. *)
C3_ReuseRevokesFamily ==
    [][/\ \A p \in Procs :
            (/\ Completes(p) /\ proc'[p].op = "refresh"
             /\ Presented(p) # None
             /\ tokens[Val(Presented(p))].is_revoked)
            => /\ proc'[p].result = "revoked_reused"
               /\ \A i \in DOMAIN tokens' :
                     tokens'[i].family_id = tokens[Val(Presented(p))].family_id
                        => tokens'[i].is_revoked
       /\ \A i \in DOMAIN tokens \cap DOMAIN tokens' :
            tokens[i].is_revoked => tokens'[i].is_revoked
    ]_vars

\* the reused token was rotated, and its successor is revoked with it
C3_Witness ==
    \E p \in Procs :
        /\ DoneWith(p, "refresh", "revoked_reused")
        /\ \E i \in DOMAIN tokens, j \in DOMAIN tokens :
              /\ tokens[i].token = proc[p].token
              /\ tokens[i].replaced_by = Some(j)
              /\ tokens[j].is_revoked
              /\ tokens[j].replaced_by = None

(* C4: a refresh request sends the security alert once if the token it
   presents is already revoked, and not at all otherwise (success, unknown
   token, expired token). *)
C4_AlertOncePerReuse ==
    [][\A p \in Procs :
        (Completes(p) /\ proc'[p].op = "refresh")
        => proc'[p].alerts =
              IF Presented(p) # None /\ tokens[Val(Presented(p))].is_revoked
              THEN 1 ELSE 0
    ]_vars

C4_Witness ==
    \E p \in Procs : DoneWith(p, "refresh", "revoked_reused") /\ proc[p].alerts = 1

(* C5: a refresh presenting a token that is not revoked and has
   expires_at <= now, the instant expires_at = now included, fails as
   expired, creates no token and changes no refresh token and no user. *)
C5_ExpiredRefreshFails ==
    [][\A p \in Procs :
        (/\ Completes(p) /\ proc'[p].op = "refresh"
         /\ Presented(p) # None
         /\ ~tokens[Val(Presented(p))].is_revoked
         /\ tokens[Val(Presented(p))].expires_at <= now)
        => /\ proc'[p].result = "expired"
           /\ tokens' = tokens /\ users' = users /\ nextTok' = nextTok
    ]_vars

\* the account a login form names before the step, None if there is none
Account(p) == get_user_by_email(DB, proc'[p].email)

\* the lock of the row is in force at time t: locked_until is set and in
\* the future
LockInForce(row, t) == row.locked_until # None /\ t < Val(row.locked_until)

(* C6: every wrong-password login against an account that is not locked
   adds one to failed_login_attempts, and the one that brings the counter to
   MAX_LOGIN_ATTEMPTS (the fifth in a row from zero) leaves is_user_locked
   true with locked_until = now + the lockout duration; is_user_locked stays
   true at every instant before locked_until, is false from locked_until on,
   and a login is then no longer refused as locked, with no unlock
   operation in between. *)
C6_LockoutAfterThreshold ==
    [][/\ \A p \in Procs :
            (/\ Completes(p) /\ proc'[p].op = "login"
             /\ Account(p) # None
             /\ ~LockInForce(users[Val(Account(p))], now)
             /\ get_password_hash(proc'[p].password)
                    # users[Val(Account(p))].hashed_password)
            => LET u == Val(Account(p))
               IN  /\ proc'[p].result = "invalid_credentials"
                   /\ users'[u].failed_login_attempts
                        = users[u].failed_login_attempts + 1
                   /\ users'[u].failed_login_attempts >= MAX_LOGIN_ATTEMPTS
                        => /\ is_user_locked(users'[u], now')
                           /\ users'[u].locked_until = Some(now' + LOCKOUT_DURATION)
       /\ \A u \in DOMAIN users \cap DOMAIN users' :
            (LockInForce(users[u], now) /\ now' < Val(users[u].locked_until))
                => is_user_locked(users'[u], now')
       /\ \A u \in DOMAIN users' :
            (users'[u].locked_until # None /\ now' >= Val(users'[u].locked_until))
                => ~is_user_locked(users'[u], now')
       /\ \A p \in Procs :
            (/\ Completes(p) /\ proc'[p].op = "login"
             /\ Account(p) # None
             /\ ~LockInForce(users[Val(Account(p))], now))
            => proc'[p].result # "account_locked"
    ]_vars

\* the fifth wrong password in a row has just locked the account
C6_Witness ==
    \E p \in Procs, u \in DOMAIN users :
        /\ DoneWith(p, "login", "invalid_credentials")
        /\ proc[p].email = users[u].email
        /\ proc[p].attempts = MAX_LOGIN_ATTEMPTS - 1
        /\ users[u].failed_login_attempts = MAX_LOGIN_ATTEMPTS
        /\ is_user_locked(users[u], now)

(* C7: every login that returns a token pair leaves the account with
   failed_login_attempts = 0, locked_until cleared and last_login_at = now,
   whatever the counter and the lapsed lock were before. *)
C7_SuccessResetsLockout ==
    [][\A p \in Procs :
        (Completes(p) /\ proc'[p].op = "login" /\ proc'[p].result = "ok")
        => /\ Account(p) # None
           /\ LET u == Val(Account(p))
              IN  /\ users'[u].failed_login_attempts = 0
                  /\ users'[u].locked_until = None
                  /\ users'[u].last_login_at = Some(now')
    ]_vars

\* a login succeeded on an account whose counter stood at the threshold,
\* that is after a lock that had lapsed
C7_Witness ==
    \E p \in Procs, u \in DOMAIN users :
        /\ DoneWith(p, "login", "ok")
        /\ proc[p].email = users[u].email
        /\ proc[p].attempts >= MAX_LOGIN_ATTEMPTS
        /\ users[u].failed_login_attempts = 0
        /\ users[u].locked_until = None

(* C8: while the lock of an account is in force every login for it, also
   one with the right password, fails as account_locked, does not evaluate
   the password and changes no user and no refresh token. *)
C8_LockedLoginRefused ==
    [][\A p \in Procs :
        (/\ Completes(p) /\ proc'[p].op = "login"
         /\ Account(p) # None
         /\ LockInForce(users[Val(Account(p))], now))
        => /\ proc'[p].result = "account_locked"
           /\ ~proc'[p].pw_checked
           /\ users' = users /\ tokens' = tokens /\ nextTok' = nextTok
    ]_vars

\* the right password was refused on a locked account
C8_Witness ==
    \E p \in Procs, u \in DOMAIN users :
        /\ DoneWith(p, "login", "account_locked")
        /\ proc[p].email = users[u].email
        /\ get_password_hash(proc[p].password) = users[u].hashed_password
        /\ users[u].failed_login_attempts >= MAX_LOGIN_ATTEMPTS

\* the access token of a request names an existing, active account
Authenticated(uid) == uid \in DOMAIN users /\ users[uid].is_active

(* C9: a logout by an authenticated user always answers ok; it revokes the
   presented token if the token exists and belongs to that user and changes
   no other token; if the token is unknown or belongs to another user no
   token changes.  A refresh presenting a revoked token, such as one its
   owner logged out, never succeeds. *)
C9_LogoutOwnTokenOnly ==
    [][/\ \A p \in Procs :
            (Completes(p) /\ proc'[p].op = "logout" /\ Authenticated(proc'[p].uid))
            => /\ proc'[p].result = "ok"
               /\ users' = users
               /\ DOMAIN tokens' = DOMAIN tokens
               /\ IF /\ Presented(p) # None
                     /\ tokens[Val(Presented(p))].user_id = proc'[p].uid
                  THEN /\ tokens'[Val(Presented(p))].is_revoked
                       /\ \A j \in DOMAIN tokens \ {Val(Presented(p))} :
                             tokens'[j] = tokens[j]
                  ELSE tokens' = tokens
       /\ \A p \in Procs :
            (/\ Completes(p) /\ proc'[p].op = "refresh"
             /\ Presented(p) # None
             /\ tokens[Val(Presented(p))].is_revoked)
            => proc'[p].result # "ok"
    ]_vars

\* a logout presenting the live token of another user was answered, and the
\* token is still live
C9_Witness ==
    \E p \in Procs, i \in DOMAIN tokens :
        /\ DoneWith(p, "logout", "ok")
        /\ tokens[i].token = proc[p].token
        /\ tokens[i].user_id # proc[p].uid
        /\ ~tokens[i].is_revoked

(* C10: logout_all by an authenticated user leaves every refresh token of
   that user revoked, reports the number of the user's tokens that were not
   revoked before the request, and leaves the tokens of every other user as
   they were. *)
C10_LogoutAllCountsAndRevokes ==
    [][\A p \in Procs :
        (Completes(p) /\ proc'[p].op = "logout_all" /\ Authenticated(proc'[p].uid))
        => /\ proc'[p].result = "ok"
           /\ DOMAIN tokens' = DOMAIN tokens
           /\ \A i \in DOMAIN tokens :
                 IF tokens[i].user_id = proc'[p].uid
                 THEN tokens'[i].is_revoked
                 ELSE tokens'[i] = tokens[i]
           /\ proc'[p].count =
                 Cardinality({i \in DOMAIN tokens :
                    tokens[i].user_id = proc'[p].uid /\ ~tokens[i].is_revoked})
    ]_vars

\* logout_all revoked one live token of a user who also held a token revoked
\* before, while another user holds a live token
C10_Witness ==
    \E p \in Procs :
        /\ DoneWith(p, "logout_all", "ok")
        /\ proc[p].count = 1
        /\ Cardinality({i \in DOMAIN tokens : tokens[i].user_id = proc[p].uid}) = 2
        /\ \E j \in DOMAIN tokens :
              tokens[j].user_id # proc[p].uid /\ ~tokens[j].is_revoked

\* the single-use tokens of user u that can still be consumed
LiveVerification(u, token_type) ==
    {i \in DOMAIN vtokens :
        /\ vtokens[i].user_id = u
        /\ vtokens[i].token_type = token_type
        /\ ~vtokens[i].is_used
        /\ vtokens[i].expires_at > now}

LiveReset(u) ==
    {i \in DOMAIN ptokens :
        ptokens[i].user_id = u /\ ~ptokens[i].is_used /\ ptokens[i].expires_at > now}

(* C11: in every reachable state, also with issue calls of one user
   interleaved, a user holds at most one unused and unexpired verification
   token of each token_type and at most one unused and unexpired
   password-reset token *)
C11_OneLiveSingleUseToken ==
    \A u \in UserIds :
        /\ \A token_type \in {"email_verification", "email_change"} :
              Cardinality(LiveVerification(u, token_type)) <= 1
        /\ Cardinality(LiveReset(u)) <= 1

\* request p consumed the single-use token it presented
Consumed(p) ==
    /\ proc[p].pc = "done"
    /\ proc[p].op \in {"verify_email", "reset_password"}
    /\ proc[p].result = "ok"

(* C12: a verification or password-reset token value is consumed by at most
   one request, also when two requests present it at the same time: two
   requests never both end verify_email, or both end reset_password,
   successfully for one value *)
C12_OneConsumePerToken ==
    \A p \in Procs : \A q \in Procs \ {p} :
        ~(/\ Consumed(p) /\ Consumed(q)
          /\ proc[p].op = proc[q].op
          /\ proc[p].token = proc[q].token)

\* the step is the whole handler of a consume served by p
Consumes(p) ==
    Completes(p) /\ proc'[p].op \in {"verify_email", "reset_password"}

\* the rows of the table the consume reads that carry the presented value,
\* as they are before the step
PresentedSecret(p) ==
    IF proc'[p].op = "verify_email"
    THEN {vtokens[i] : i \in {j \in DOMAIN vtokens : vtokens[j].token = proc'[p].token}}
    ELSE {ptokens[i] : i \in {j \in DOMAIN ptokens : ptokens[j].token = proc'[p].token}}

(* C13: a verify_email or reset_password whose token value is unknown,
   already used or has expires_at <= now fails with TokenInvalid and changes
   no user, no single-use token and no refresh token *)
C13_InvalidConsumeNoEffect ==
    [][\A p \in Procs :
          (/\ Consumes(p)
           /\ \A row \in PresentedSecret(p) : row.is_used \/ row.expires_at <= now)
          => /\ proc'[p].result = "token_invalid"
             /\ users' = users
             /\ vtokens' = vtokens
             /\ ptokens' = ptokens
             /\ tokens' = tokens]_vars

\* a used reset token was presented again, by a user with a session, and
\* refused
C13_Witness ==
    /\ DoneWith("p1", "reset_password", "token_invalid")
    /\ proc["p1"].token \in DOMAIN ptokens
    /\ ptokens[proc["p1"].token].is_used
    /\ ptokens[proc["p1"].token].expires_at > now
    /\ \E i \in DOMAIN tokens : tokens[i].user_id = ptokens[proc["p1"].token].user_id

\* the step is a successful reset_password served by p
Resets(p) ==
    /\ Completes(p)
    /\ proc'[p].op = "reset_password"
    /\ proc'[p].result = "ok"

(* C14: when reset_password succeeds, every refresh token the user held
   before the call is revoked, the reset token is marked used and the
   refresh tokens of other users are unchanged; a revoked token stays
   revoked and a refresh that presents a revoked token never succeeds *)
C14_ResetRevokesSessions ==
    [][/\ \A p \in Procs :
            Resets(p) =>
                LET u == ptokens[proc'[p].token].user_id
                IN  /\ DOMAIN tokens' = DOMAIN tokens
                    /\ \A i \in DOMAIN tokens :
                          IF tokens[i].user_id = u THEN tokens'[i].is_revoked
                          ELSE tokens'[i] = tokens[i]
                    /\ ptokens'[proc'[p].token].is_used
       /\ \A i \in DOMAIN tokens :
            tokens[i].is_revoked => i \in DOMAIN tokens' /\ tokens'[i].is_revoked
       /\ \A p \in Procs :
            (/\ Completes(p)
             /\ proc'[p].op = "refresh"
             /\ Presented(p) # None
             /\ tokens[Val(Presented(p))].is_revoked)
            => proc'[p].result # "ok"]_vars

\* a reset has ended for a user who held a session, while the other user
\* holds a live one
C14_Witness ==
    /\ DoneWith("p1", "reset_password", "ok")
    /\ \E i \in DOMAIN tokens :
          tokens[i].user_id = ptokens[proc["p1"].token].user_id
    /\ \E i \in DOMAIN tokens :
          /\ tokens[i].user_id # ptokens[proc["p1"].token].user_id
          /\ ~tokens[i].is_revoked

(* C15: a login with the correct password to a deactivated account that is
   verified and not locked succeeds: it returns a token pair and leaves the
   user with is_active = true and deactivated_at cleared *)
C15_LoginReactivates ==
    [][\A p \in Procs :
          (/\ Completes(p)
           /\ proc'[p].op = "login"
           /\ Account(p) # None
           /\ ~users[Val(Account(p))].is_active
           /\ verify_password(proc'[p].password, users[Val(Account(p))].hashed_password)
           /\ users[Val(Account(p))].is_verified
           /\ ~LockInForce(users[Val(Account(p))], now))
          => /\ proc'[p].result = "ok"
             /\ proc'[p].new_id # None
             /\ Val(proc'[p].new_id) \in DOMAIN tokens' \ DOMAIN tokens
             /\ tokens'[Val(proc'[p].new_id)].user_id = Val(Account(p))
             /\ ~tokens'[Val(proc'[p].new_id)].is_revoked
             /\ users'[Val(Account(p))].is_active
             /\ users'[Val(Account(p))].deactivated_at = None]_vars

\* a login has succeeded for a user whose earlier sessions were all revoked
\* by deactivate, with no login since: the account was deactivated when the
\* login began
C15_Witness ==
    /\ DoneWith("p1", "login", "ok")
    /\ LET new == Val(proc["p1"].new_id)
           u == tokens[new].user_id
       IN  /\ users[u].is_active
           /\ \E i \in DOMAIN tokens \ {new} : tokens[i].user_id = u
           /\ \A i \in DOMAIN tokens \ {new} :
                 tokens[i].user_id = u => tokens[i].is_revoked

(* C16: when deactivate ends successfully the user has is_active = false
   and deactivated_at set to the time of the call, and every refresh token
   the user owns is revoked *)
C16_DeactivateRevokesSessions ==
    [][\A p \in Procs :
          (/\ Completes(p)
           /\ proc'[p].op = "deactivate_account"
           /\ proc'[p].result = "ok")
          => /\ users'[proc'[p].uid].is_active = FALSE
             /\ users'[proc'[p].uid].deactivated_at = Some(now)
             /\ DOMAIN tokens' = DOMAIN tokens
             /\ \A i \in DOMAIN tokens' :
                   tokens'[i].user_id = proc'[p].uid => tokens'[i].is_revoked]_vars

\* a deactivation has ended for a user who held a session
C16_Witness ==
    /\ DoneWith("p1", "deactivate_account", "ok")
    /\ ~users[proc["p1"].uid].is_active
    /\ \E i \in DOMAIN tokens : tokens[i].user_id = proc["p1"].uid

\* the users that own a row of one of the three token tables
Owners(rows) == {rows[i].user_id : i \in DOMAIN rows}

OwnedByExistingUser ==
    Owners(tokens) \cup Owners(vtokens) \cup Owners(ptokens) \subseteq DOMAIN users

(* C17: in every reachable state every refresh, verification and
   password-reset token is owned by an existing user; delete and the purge
   remove a user together with all of the user's tokens, and a refresh that
   presents a value whose record is gone fails as not_found *)
C17_TokensOwnedByExistingUser ==
    /\ []OwnedByExistingUser
    /\ [][\A p \in Procs :
            /\ (/\ Completes(p)
                 /\ proc'[p].op = "delete_account"
                 /\ proc'[p].result = "ok")
                => proc'[p].uid \in DOMAIN users \ DOMAIN users'
            /\ (/\ Completes(p)
                 /\ proc'[p].op \in {"delete_account", "cleanup_deactivated_users"})
                => \A u \in DOMAIN users \ DOMAIN users' :
                      u \notin Owners(tokens') \cup Owners(vtokens') \cup Owners(ptokens')
            /\ (/\ Completes(p)
                 /\ proc'[p].op = "refresh"
                 /\ proc'[p].token \notin DOMAIN tokens)
                => proc'[p].result = "not_found"]_vars

\* a refresh has presented a token that was issued and went with its user,
\* who also held a single-use token, and was answered not_found
C17_Witness ==
    /\ DoneWith("p1", "refresh", "not_found")
    /\ proc["p1"].token \in 1..(nextTok - 1)
    /\ DOMAIN users # UserIds
    /\ \E i \in 1..(nextSecret - 1) : i \notin DOMAIN vtokens \cup DOMAIN ptokens

\* the users deactivated at or before now minus the retention period
Stale ==
    {u \in DOMAIN users :
        /\ ~users[u].is_active
        /\ users[u].deactivated_at # None
        /\ Val(users[u].deactivated_at) + DEACTIVATED_RETENTION <= now}

(* C18: the purge deletes exactly the users with is_active = false and
   deactivated_at at or before now minus the retention period, returns the
   number of users it deleted, and leaves every other user and the tokens
   of every other user unchanged *)
C18_PurgeExactlyStale ==
    [][\A p \in Procs :
          (Completes(p) /\ proc'[p].op = "cleanup_deactivated_users")
          => /\ DOMAIN users' = DOMAIN users \ Stale
             /\ proc'[p].count = Cardinality(Stale)
             /\ \A u \in DOMAIN users' : users'[u] = users[u]
             /\ DOMAIN tokens' = {i \in DOMAIN tokens : tokens[i].user_id \notin Stale}
             /\ \A i \in DOMAIN tokens' : tokens'[i] = tokens[i]]_vars

\* a purge has deleted one user and left another, who holds a live session
C18_Witness ==
    /\ DoneWith("p1", "cleanup_deactivated_users", "ok")
    /\ proc["p1"].count = 1
    /\ \E i \in DOMAIN tokens :
          tokens[i].user_id \in DOMAIN users /\ ~tokens[i].is_revoked

(* C19: request_password_reset answers every email with the same success
   response, whether it matches no account, an active account or a
   deactivated one, and issues a reset token only when the email matches an
   active account, to that account *)
C19_ForgotPasswordUniform ==
    [][\A p \in Procs :
          (Completes(p) /\ proc'[p].op = "forgot_password")
          => /\ proc'[p].result = "ok"
             /\ proc'[p].message = ResetSent
             /\ vtokens' = vtokens
             /\ ptokens' # ptokens
                  => /\ Account(p) # None
                     /\ users[Val(Account(p))].is_active
                     /\ \A i \in DOMAIN ptokens' \ DOMAIN ptokens :
                           ptokens'[i].user_id = Val(Account(p))]_vars

\* the request named a deactivated account: the same response, no token
C19_Witness ==
    /\ DoneWith("p1", "forgot_password", "ok")
    /\ proc["p1"].message = ResetSent
    /\ \E u \in DOMAIN users :
          /\ users[u].email = proc["p1"].email
          /\ ~users[u].is_active
          /\ \A i \in DOMAIN ptokens : ptokens[i].user_id # u

(* C20: resend_verification always returns success, and the response is the
   same whether or not the email matches an account, unverified or
   verified: every call is answered with the message an unknown email gets *)
C20_ResendVerificationUniform ==
    [][\A p \in Procs :
          (Completes(p) /\ proc'[p].op = "resend_verification")
          => /\ proc'[p].result = "ok"
             /\ proc'[p].message = VerificationSent]_vars

----------------------------------------------------------------------------
(* C21: for an account that is not locked, a login with a wrong password is
   answered as a login with an unknown email is, with InvalidCredentials,
   whether the account is verified or not and active or not; and
   EmailNotVerified is answered only to a login that named an account and
   supplied its password. *)
C21_WrongPasswordLikeUnknownEmail ==
    [][ Completes("p1") /\ proc'["p1"].op = "login" =>
          LET a == Account("p1")
              c == proc'["p1"]
              wrong == /\ a # None
                       /\ ~LockInForce(users[Val(a)], now)
                       /\ ~verify_password(c.password, users[Val(a)].hashed_password)
          IN  /\ (a = None \/ wrong) =>
                    c.result = "invalid_credentials" /\ c.message = "none"
              /\ c.result = "email_not_verified" =>
                    /\ a # None
                    /\ verify_password(c.password, users[Val(a)].hashed_password) ]_vars

\* a wrong password for the unlocked, unverified account was answered
C21_Witness ==
    /\ DoneWith("p1", "login", "invalid_credentials")
    /\ proc["p1"].email = EmailOf("u2")
    /\ proc["p1"].pw_checked
    /\ ~users["u2"].is_verified

----------------------------------------------------------------------------
(* C22: a successful login stores exactly one new refresh token; the token
   is owned by the user who logged in, it is Active (not revoked, not
   expired, no successor), its family_id is the family_id of no other
   refresh token stored at that moment, and every token stored before the
   login is left as it was. *)
C22_LoginStoresOneFreshToken ==
    [][ Completes("p1") /\ proc'["p1"].op = "login" /\ proc'["p1"].result = "ok" =>
          \E n \in DOMAIN tokens' \ DOMAIN tokens :
              /\ DOMAIN tokens' = DOMAIN tokens \cup {n}
              /\ Some(tokens'[n].user_id) = Account("p1")
              /\ ~tokens'[n].is_revoked
              /\ tokens'[n].replaced_by = None
              /\ tokens'[n].expires_at > now
              /\ \A i \in DOMAIN tokens :
                    /\ tokens'[i] = tokens[i]
                    /\ tokens[i].family_id # tokens'[n].family_id ]_vars

\* a login succeeded for a user who holds an older token, Active as well
C22_Witness ==
    /\ DoneWith("p1", "login", "ok")
    /\ \E n \in DOMAIN tokens, i \in DOMAIN tokens :
          /\ proc["p1"].new_id = Some(n)
          /\ i # n
          /\ tokens[i].user_id = tokens[n].user_id
          /\ ~tokens[i].is_revoked

----------------------------------------------------------------------------
(* C23: revoke_session of an authenticated user revokes the token with the
   given id, with no successor, exactly when that token is owned by the
   user, not revoked and not expired (expires_at > now); for an unknown id,
   a token of another user, a revoked token or an expired one it answers
   NotFound and no refresh-token record changes. *)
C23_RevokeSessionOwnActiveOnly ==
    [][ Completes("p1") /\ proc'["p1"].op = "revoke_session"
            /\ Authenticated(proc'["p1"].uid) =>
          LET i == proc'["p1"].token
              u == proc'["p1"].uid
              active == /\ i \in DOMAIN tokens
                        /\ tokens[i].user_id = u
                        /\ ~tokens[i].is_revoked
                        /\ tokens[i].expires_at > now
          IN  IF active
              THEN /\ proc'["p1"].result = "ok"
                   /\ tokens' = [tokens EXCEPT ![i] =
                                   [@ EXCEPT !.is_revoked = TRUE, !.replaced_by = None]]
              ELSE /\ proc'["p1"].result = "not_found"
                   /\ tokens' = tokens ]_vars

\* a session was revoked while another user held an Active token
C23_Witness ==
    /\ DoneWith("p1", "revoke_session", "ok")
    /\ tokens[proc["p1"].token].is_revoked
    /\ tokens[proc["p1"].token].user_id = proc["p1"].uid
    /\ \E i \in DOMAIN tokens :
          tokens[i].user_id # proc["p1"].uid /\ ~tokens[i].is_revoked

----------------------------------------------------------------------------
(* C24: a refresh token that is revoked, with a successor (Rotated) or
   without one (Revoked), keeps its is_revoked and its replaced_by in every
   later step, for as long as its record exists. *)
C24_TerminalStateFixed ==
    [][ \A i \in DOMAIN tokens \cap DOMAIN tokens' :
          tokens[i].is_revoked =>
              /\ tokens'[i].is_revoked
              /\ tokens'[i].replaced_by = tokens[i].replaced_by ]_vars

----------------------------------------------------------------------------
(* C25: in every reachable state, the states between two statements of a
   refresh included, a refresh token whose replaced_by is set is revoked. *)
C25_ReplacedImpliesRevoked ==
    \A i \in DOMAIN tokens :
        tokens[i].replaced_by # None => tokens[i].is_revoked

\* a token has a successor while a refresh has stored its new token and
\* not yet revoked the one presented
C25_Witness ==
    /\ \E i \in DOMAIN tokens : tokens[i].replaced_by # None
    /\ \E p \in Procs : proc[p].pc = "r_revoke"

----------------------------------------------------------------------------
\* the sets of tokens closed under replaced_by in which every token has a
\* successor: a cycle of links is such a set, and a set that holds no cycle
\* has a last token
Cycles ==
    {S \in SUBSET DOMAIN tokens :
        /\ S # {}
        /\ \A i \in S : tokens[i].replaced_by # None
                          /\ Val(tokens[i].replaced_by) \in S}

(* C26: in every reachable state the replaced_by links form no cycle,
   every replaced_by is the id of a stored token of the same family, and no
   token is the replaced_by of two different tokens. *)
C26_SuccessorLinksWellFormed ==
    /\ Cycles = {}
    /\ \A i \in DOMAIN tokens :
          tokens[i].replaced_by # None =>
              /\ Val(tokens[i].replaced_by) \in DOMAIN tokens
              /\ tokens[Val(tokens[i].replaced_by)].family_id = tokens[i].family_id
    /\ \A i \in DOMAIN tokens : \A j \in DOMAIN tokens \ {i} :
          tokens[i].replaced_by # None => tokens[j].replaced_by # tokens[i].replaced_by

\* a chain of two links: a token, its successor and the successor of that
C26_Witness ==
    \E i \in DOMAIN tokens :
        /\ tokens[i].replaced_by # None
        /\ Val(tokens[i].replaced_by) \in DOMAIN tokens
        /\ tokens[Val(tokens[i].replaced_by)].replaced_by # None

----------------------------------------------------------------------------
\* a user whose locked_until is set has a counter at or above the threshold
LockedAtThreshold ==
    \A u \in DOMAIN users :
        users[u].locked_until # None =>
            users[u].failed_login_attempts >= MAX_LOGIN_ATTEMPTS

\* the step gives locked_until of u a value
SetsLock(u) ==
    users'[u].locked_until # None /\ users'[u].locked_until # users[u].locked_until

(* C27, as stated: in every reachable state a user whose locked_until is
   set has failed_login_attempts >= MAX_LOGIN_ATTEMPTS; no step sets
   locked_until and leaves the counter below the threshold, and no step
   lowers the counter and leaves locked_until set. *)
C27_LockOnlyAtThreshold ==
    /\ []LockedAtThreshold
    /\ [][ \A u \in DOMAIN users \cap DOMAIN users' :
            /\ SetsLock(u) => users'[u].failed_login_attempts >= MAX_LOGIN_ATTEMPTS
            /\ users'[u].failed_login_attempts < users[u].failed_login_attempts =>
                  users'[u].locked_until = None ]_vars

(* C27, amended: a step that sets locked_until stores, in the same row, a
   counter at or above the threshold; and the counter of a user whose
   locked_until is set is below the threshold only after a login that read
   the counter before the lock was set has written it back. *)
C27_LockSetAtThreshold ==
    [][ \A u \in DOMAIN users \cap DOMAIN users' :
          /\ SetsLock(u) => users'[u].failed_login_attempts >= MAX_LOGIN_ATTEMPTS
          /\ (users'[u].locked_until # None
                 /\ users'[u].failed_login_attempts < users[u].failed_login_attempts) =>
                \E p \in Procs :
                    /\ proc[p].pc = "l_incr"
                    /\ proc'[p].pc = "done"
                    /\ proc[p].attempts + 1 < users[u].failed_login_attempts ]_vars

\* the account is locked while a login that read the counter earlier is yet
\* to write it
C27_Witness ==
    /\ users["u1"].locked_until # None
    /\ \E p \in Procs :
          proc[p].pc = "l_incr" /\ proc[p].attempts < users["u1"].failed_login_attempts

----------------------------------------------------------------------------
\* a deactivated account is a verified one
DeactivatedIsVerified ==
    \A u \in DOMAIN users : ~users[u].is_active => users[u].is_verified

(* C28: a login that is rejected with EmailNotVerified leaves every user as
   it was (is_active, deactivated_at, failed_login_attempts, locked_until
   and last_login_at included) and creates no refresh token. The reactivation
   of login comes before its email gate, and does not run for an unverified
   account because, in every reachable state, a deactivated account is a
   verified one. *)
C28_UnverifiedLoginNoEffect ==
    /\ []DeactivatedIsVerified
    /\ [][ Completes("p1") /\ proc'["p1"].op = "login"
              /\ proc'["p1"].result = "email_not_verified" =>
            /\ users' = users
            /\ tokens' = tokens
            /\ nextTok' = nextTok ]_vars

\* the password of a registered, unverified account was accepted and the
\* login refused, while another account is deactivated
C28_Witness ==
    /\ DoneWith("p1", "login", "email_not_verified")
    /\ proc["p1"].email = NewEmail
    /\ proc["p1"].pw_checked
    /\ \E u \in DOMAIN users : ~users[u].is_active

----------------------------------------------------------------------------
\* no two users have the same email
UniqueEmails ==
    \A u \in DOMAIN users : \A v \in DOMAIN users \ {u} :
        users[u].email # users[v].email

(* C29: in every reachable state, with requests interleaved, no two users
   have the same email; a register that finds its email held by a user
   answers DuplicateEmail (400, "An account with this email already
   exists.") and creates no user; and a step that changes the email of a
   user, the consumption of an email-change token, gives it an address that
   no other user holds at that moment. *)
C29_EmailsUnique ==
    /\ []UniqueEmails
    /\ [][ \A p \in Procs :
              /\ (proc[p].pc = "g_get" /\ proc'[p].pc # "g_get"
                     /\ get_user_by_email(DB, proc[p].email) # None) =>
                    /\ proc'[p].pc = "done"
                    /\ proc'[p].result = "bad_request"
                    /\ proc'[p].message = "An account with this email already exists."
                    /\ users' = users
              /\ (proc[p].pc = "ve_user" /\ proc'[p].pc # "ve_user") =>
                    \A u \in DOMAIN users :
                        users'[u].email # users[u].email =>
                            \A v \in DOMAIN users \ {u} :
                                users[v].email # users'[u].email ]_vars

\* an email-change token was consumed and refused: the address it carries
\* was registered after the change was requested
C29_Witness ==
    \E p \in Procs :
        /\ proc[p].op = "verify_email"
        /\ proc[p].pc = "done"
        /\ proc[p].result = "error"
        /\ users["u1"].email = EmailOf("u1")
        /\ \E u \in DOMAIN users \cap NewUserIds : users[u].email = NewEmail

----------------------------------------------------------------------------
\* the refresh tokens with expires_at < now
ExpiredTokens == {i \in DOMAIN tokens : tokens[i].expires_at < now}

(* C30: the expiry purge deletes exactly the refresh tokens with
   expires_at < now, leaves the others as they are and returns the number it
   deleted; every other operation removes a refresh token only together
   with the user who owns it, and leaves the value, the owner, the
   expires_at and the family_id of every token as they were. *)
C30_TokensRemovedOnlyByPurge ==
    [][ Completes("p1") =>
          IF proc'["p1"].op = "cleanup_expired_tokens"
          THEN /\ tokens' = [i \in DOMAIN tokens \ ExpiredTokens |-> tokens[i]]
               /\ proc'["p1"].count = Cardinality(ExpiredTokens)
          ELSE \A i \in DOMAIN tokens :
                 IF i \in DOMAIN tokens'
                 THEN /\ tokens'[i].token = tokens[i].token
                      /\ tokens'[i].user_id = tokens[i].user_id
                      /\ tokens'[i].expires_at = tokens[i].expires_at
                      /\ tokens'[i].family_id = tokens[i].family_id
                 ELSE tokens[i].user_id \notin DOMAIN users' ]_vars

\* the purge has deleted a token and left one that expires at this moment
C30_Witness ==
    /\ DoneWith("p1", "cleanup_expired_tokens", "ok")
    /\ proc["p1"].count >= 1
    /\ \E i \in DOMAIN tokens : tokens[i].expires_at = now

----------------------------------------------------------------------------
\* every token of the family is revoked in the database record d
FamilyRevoked(d, family_id) ==
    \A i \in DOMAIN d.tokens :
        d.tokens[i].family_id = family_id => d.tokens[i].is_revoked

(* C31: in the reuse-detection path of refresh the family revocation is
   committed by the statement before the security notification is
   attempted; the notification step writes nothing to the database, whether
   the message is accepted or not, and answers TokenInvalid(revoked_reused)
   in both cases. *)
C31_RevocationBeforeNotification ==
    [][ \A p \in Procs :
          /\ (proc[p].pc = "r_family" /\ proc'[p].pc # "r_family") =>
                /\ proc'[p].pc = "r_alert"
                /\ proc'[p].alerts = 0
                /\ FamilyRevoked([tokens |-> tokens'],
                                 tokens[Val(proc[p].db_token)].family_id)
          /\ (proc[p].pc = "r_alert" /\ proc'[p].pc # "r_alert") =>
                /\ proc'[p].pc = "done"
                /\ proc'[p].result = "revoked_reused"
                /\ proc'[p].alerts = 1
                /\ proc'[p].delivered = proc[p].smtp
                /\ tokens' = tokens /\ users' = users ]_vars

\* reuse was detected and answered while the mail server refused the alert
C31_Witness ==
    \E p \in Procs :
        /\ proc[p].op = "refresh" /\ proc[p].pc = "done"
        /\ proc[p].result = "revoked_reused"
        /\ proc[p].alerts = 1
        /\ ~proc[p].smtp /\ ~proc[p].delivered
        /\ tokens[proc[p].token].is_revoked

----------------------------------------------------------------------------
(* C32: activate_account, called with the access token of an existing user,
   answers without error; for a deactivated user it sets is_active and
   clears deactivated_at, and for an active one it changes nothing. *)
C32_ActivateReactivates ==
    [][ Completes("p1") /\ proc'["p1"].op = "activate_account"
            /\ proc'["p1"].uid \in DOMAIN users =>
          LET u == proc'["p1"].uid
          IN  /\ proc'["p1"].result = "ok"
              /\ users' = [users EXCEPT ![u].is_active = TRUE,
                                         ![u].deactivated_at = None]
              /\ tokens' = tokens ]_vars

----------------------------------------------------------------------------
(* C33: when a refresh request ends as revoked_reused, every refresh token
   owned by the user of the presented token, in every family, is revoked
   after the call. *)
C33_ReuseRevokesAllSessions ==
    [][\A p \in Procs :
        (Completes(p) /\ proc'[p].op = "refresh"
            /\ proc'[p].result = "revoked_reused")
        => \A i \in DOMAIN tokens' :
              tokens'[i].user_id = tokens[Val(Presented(p))].user_id
                  => tokens'[i].is_revoked
    ]_vars

----------------------------------------------------------------------------
\* the request has committed the family revocation of reuse detection and
\* has not yet been collected
DetectedReuse(q) ==
    /\ proc[q].op = "refresh"
    /\ \/ proc[q].pc = "r_alert"
       \/ proc[q].pc = "done" /\ proc[q].result = "revoked_reused"

(* C34: from the moment a refresh request has committed the family
   revocation of reuse detection, every token of that family is revoked,
   whatever a concurrent refresh of the family's current token persists
   afterwards. *)
C34_RevokedFamilyStaysRevoked ==
    \A q \in Procs :
        DetectedReuse(q)
            => FamilyRevoked(DB,
                   tokens[Val(get_refresh_token(DB, proc[q].token))].family_id)

----------------------------------------------------------------------------
NoCallInFlight == \A p \in Procs : proc[p].pc \in {"idle", "done"}

(* C35: whenever no request is in flight, no family holds two non-revoked
   refresh tokens. *)
C35_OneLiveTokenPerFamily ==
    NoCallInFlight =>
        \A i \in DOMAIN tokens, j \in DOMAIN tokens :
            (/\ tokens[i].family_id = tokens[j].family_id
             /\ ~tokens[i].is_revoked /\ ~tokens[j].is_revoked) => i = j

----------------------------------------------------------------------------
\* logins of u whose wrong password has been evaluated and whose failure is
\* not yet counted
UncountedFailures(u) ==
    {p \in Procs : /\ proc[p].op = "login" /\ proc[p].pc = "l_incr"
                   /\ proc[p].pw_checked /\ proc[p].user = Some(u)}

(* C36: while no login of the account has succeeded and the clock has not
   moved, the wrong passwords evaluated against it, those counted in
   failed_login_attempts and those of logins still in flight, number at
   most MAX_LOGIN_ATTEMPTS. *)
C36_AtMostMaxEvaluations ==
    \A u \in DOMAIN users :
        (users[u].last_login_at = None /\ now = 0)
            => users[u].failed_login_attempts
                   + Cardinality(UncountedFailures(u)) <= MAX_LOGIN_ATTEMPTS

----------------------------------------------------------------------------
(* C37: whenever no request is in flight, a deactivated user owns no
   non-revoked refresh token. *)
C37_DeactivatedOwnsNoLiveToken ==
    NoCallInFlight =>
        \A i \in DOMAIN tokens :
            (tokens[i].user_id \in DOMAIN users
                /\ ~users[tokens[i].user_id].is_active) => tokens[i].is_revoked

----------------------------------------------------------------------------
\* the lock of the row was set and has run out at t
LockLapsed(row, t) == row.locked_until # None /\ ~LockInForce(row, t)

(* C38: a lapsed lock does not reset the failure counter: the passing of
   time changes no user row, an account whose lock has run out still has
   failed_login_attempts >= MAX_LOGIN_ATTEMPTS, and one wrong-password login
   against it is answered as invalid credentials, adds one to the counter
   and locks the account again until now + the lockout duration. *)
C38_LapsedLockKeepsCounter ==
    /\ [](\A u \in DOMAIN users :
            LockLapsed(users[u], now)
                => users[u].failed_login_attempts >= MAX_LOGIN_ATTEMPTS)
    /\ [][ /\ now' # now => users' = users
           /\ (Completes("p1") /\ proc'["p1"].op = "login") =>
                 LET a == Account("p1")
                     c == proc'["p1"]
                 IN  (/\ a # None
                      /\ LockLapsed(users[Val(a)], now)
                      /\ ~verify_password(c.password, users[Val(a)].hashed_password))
                     => /\ c.result = "invalid_credentials"
                        /\ users'[Val(a)].failed_login_attempts
                               = users[Val(a)].failed_login_attempts + 1
                        /\ users'[Val(a)].locked_until
                               = Some(now + LOCKOUT_DURATION)
                        /\ LockInForce(users'[Val(a)], now') ]_vars

\* a wrong password after the lock ran out: the counter is past the
\* threshold and the account is locked again
C38_Witness ==
    /\ DoneWith("p1", "login", "invalid_credentials")
    /\ \E u \in DOMAIN users :
          /\ proc["p1"].email = users[u].email
          /\ users[u].failed_login_attempts = MAX_LOGIN_ATTEMPTS + 1
          /\ users[u].locked_until = Some(now + LOCKOUT_DURATION)
          /\ now >= 1

----------------------------------------------------------------------------
(* C39: change_password of an active user fails as a bad request, leaving
   every user row and every refresh token as it was, when the current
   password given is wrong or the new password equals the current one;
   otherwise it succeeds, the stored hash becomes the hash of the new
   password, and every refresh token owned by the user is revoked. *)
C39_ChangePassword ==
    [][ (Completes("p1") /\ proc'["p1"].op = "change_password"
            /\ get_current_active_user(DB, proc'["p1"].uid) = "ok") =>
          LET c == proc'["p1"]
              u == c.uid
              hash == users[u].hashed_password
          IN  IF ~verify_password(c.password, hash)
                    \/ verify_password(c.new_password, hash)
              THEN /\ c.result = "bad_request"
                   /\ users' = users /\ tokens' = tokens
              ELSE /\ c.result = "ok"
                   /\ users'[u].hashed_password # hash
                   /\ users'[u].hashed_password = get_password_hash(c.new_password)
                   /\ users' = [users EXCEPT ![u].hashed_password =
                                                users'[u].hashed_password]
                   /\ DOMAIN tokens' = DOMAIN tokens
                   /\ \A i \in DOMAIN tokens' :
                         IF tokens[i].user_id = u THEN tokens'[i].is_revoked
                         ELSE tokens'[i] = tokens[i] ]_vars

\* a password change that succeeded and revoked a token that was live
C39_Witness ==
    /\ DoneWith("p1", "change_password", "ok")
    /\ verify_password(NewPassword, users[proc["p1"].uid].hashed_password)
    /\ \E i \in DOMAIN tokens :
          /\ tokens[i].user_id = proc["p1"].uid
          /\ tokens[i].is_revoked /\ tokens[i].replaced_by = None

\* password changes refused for each of the two reasons
C39_WitnessRefused ==
    /\ DoneWith("p1", "change_password", "bad_request")
    /\ proc["p1"].message = "New password must be different from current password"
====
